---- MODULE Spec2Model ----
(***************************************************************************)
(* Zpark: the webhook intake (Webhook.post, handle_spark_webhook,          *)
(* authorize_webhook), the alert intake (Alert.post,                       *)
(* send_spark_alert_message) and the task it publishes                     *)
(* (task_send_spark_message), the command dispatch task                    *)
(* (task_dispatch_spark_command) and the command handler tasks of the      *)
(* Spark/Zabbix bot.                                                       *)
(*                                                                         *)
(* Python values are modelled as follows.  A str whose characters matter  *)
(* (e-mail addresses, message text and markup) is a sequence of           *)
(* one-character strings; a str that is only compared for equality is a   *)
(* TLA+ string.  A dict is a function whose DOMAIN is the set of keys it  *)
(* holds, so a missing key is a key outside DOMAIN.  The outcome of a     *)
(* call is Return(v) or Raise(exception name).                            *)
(***************************************************************************)
EXTENDS Integers, Sequences, FiniteSets, TLC

VARIABLES
    config,     \* app.config: the settings read by the code
    queue,      \* the broker's queue: the tasks submitted and not yet taken by a worker
    authz,      \* the last direct call of authorize_webhook, <<>> before any call
    hook,       \* the last direct call of handle_spark_webhook, <<>> when none is recorded
    post,       \* the last request served by an endpoint, <<>> when none is recorded
    chat,       \* what the Spark API holds for the webhook's message, <<>> when unused
    dispatch,   \* the last execution of task_dispatch_spark_command, <<>> before any
    sent,       \* the messages created in Spark (spark_api.messages.create), oldest first
    handler,    \* the executions of the command handler task, oldest first
    notify,     \* the last direct call of notify_of_failed_command, <<>> before any
    running,    \* the tasks workers have taken off the queue and not yet finished
    alert,      \* the last call of send_spark_alert_message or POST to /alert, <<>> when none is recorded
    celery,     \* what the installed Celery release does where the releases differ
    delivery,   \* the last execution of task_send_spark_message by a worker, <<>> before any
    backend     \* what Zabbix and the Spark API answer to each attempt of two commands, <<>> when drawn per attempt

vars == <<config, queue, authz, hook, post, chat, dispatch, sent, handler, notify,
          running, alert, celery, delivery, backend>>

(***************************************************************************)
(* Bounds of the model.                                                    *)
(***************************************************************************)
MaxQueue == 1        \* tasks the broker holds before no further submission is explored
MaxEmailLen == 3     \* longest personEmail drawn for authorize_webhook

(***************************************************************************)
(* Python values.                                                          *)
(***************************************************************************)
None == <<"None">>   \* Python's None: equal to no str (a str has one-character elements)

PyInt(n) == <<"int", n>>   \* a Python int where the code may also meet None

\* The repository pins no Celery release.  eager_rerun: Task.retry of a task
\* run by apply() runs the retry in place before it raises Retry (4.0 to
\* 4.3); later releases raise Retry at once.
CeleryBuilds == [eager_rerun : BOOLEAN]

Return(v) == [kind |-> "return", value |-> v]
Raise(e) == [kind |-> "raise", exc |-> e]

\* str.rsplit('@', 1): split once at the last '@'; one piece when there is none.
LastAt(s) ==
    LET at == {i \in 1..Len(s) : s[i] = "@"}
    IN  IF at = {} THEN 0 ELSE CHOOSE i \in at : \A j \in at : j <= i

SplitOnce(s, i) ==
    IF i = 0 THEN <<s>>
    ELSE <<SubSeq(s, 1, i - 1), SubSeq(s, i + 1, Len(s))>>

rsplit_at(s) == SplitOnce(s, LastAt(s))

(***************************************************************************)
(* authorize_webhook (api_common.py).  trusted is                          *)
(* app.config['SPARK_TRUSTED_USERS'], held as the set of the list's        *)
(* entries: the code only takes its length and tests membership.           *)
(***************************************************************************)
HasPersonEmail(webhook_data) ==
    /\ "data" \in DOMAIN webhook_data
    /\ "personEmail" \in DOMAIN webhook_data["data"]

\* Mutant of authorize_webhook: a missing personEmail is answered "not allowed".
authorize_webhook_deny_incomplete(webhook_data, trusted) ==
    IF ~HasPersonEmail(webhook_data) THEN Return(FALSE)
    ELSE LET caller == webhook_data["data"]["personEmail"]
         IN  IF Cardinality(trusted) > 0
             THEN IF Len(rsplit_at(caller)) < 2 THEN Raise("IndexError")
                  ELSE LET domain == <<"@">> \o rsplit_at(caller)[2]
                       IN  Return(caller \in trusted \/ domain \in trusted)
             ELSE Return(TRUE)

authorize_webhook(webhook_data, trusted) ==
    IF ~HasPersonEmail(webhook_data) THEN Raise("KeyError")
    ELSE LET caller == webhook_data["data"]["personEmail"]
         IN  IF Cardinality(trusted) > 0
             THEN IF Len(rsplit_at(caller)) < 2 THEN Raise("IndexError")
                  ELSE LET domain == <<"@">> \o rsplit_at(caller)[2]
                       IN  Return(caller \in trusted \/ domain \in trusted)
             ELSE Return(TRUE)

(***************************************************************************)
(* Webhook envelopes (the JSON object Spark POSTs) and app.config.         *)
(***************************************************************************)
TopKeys == {"id", "name", "resource", "event", "actorId", "data"}
DataKeys == {"id", "roomId", "personId", "personEmail", "created"}

Data(keys, email) ==
    [k \in keys |->
        CASE k = "id" -> "msgid12345"
          [] k = "roomId" -> "roomid12345"
          [] k = "personId" -> "personid12345"
          [] k = "personEmail" -> email
          [] k = "created" -> "2015-12-04T17:33:56.767Z"]

Envelope(keys, resource, event, data) ==
    [k \in keys |->
        CASE k = "id" -> "webhookid12345"
          [] k = "name" -> "Zpark UT test webhook"
          [] k = "resource" -> resource
          [] k = "event" -> event
          [] k = "actorId" -> "personid12345"
          [] k = "data" -> data]

\* app.config as a dict: a setting that is not configured at all is a key
\* outside DOMAIN (absent = TRUE leaves SPARK_WEBHOOK_SECRET out, as the
\* test suite's create_app does).  MAX_CONTENT_LENGTH is None or PyInt(n).
Config(trusted, secret, absent, max_len) ==
    [k \in {"SPARK_TRUSTED_USERS", "MAX_CONTENT_LENGTH"}
            \cup (IF absent THEN {} ELSE {"SPARK_WEBHOOK_SECRET"}) |->
        CASE k = "SPARK_TRUSTED_USERS" -> trusted
          [] k = "SPARK_WEBHOOK_SECRET" -> secret
          [] k = "MAX_CONTENT_LENGTH" -> max_len]

\* default_settings.py
DEFAULT_SPARK_TRUSTED_USERS == {None}
DEFAULT_SPARK_WEBHOOK_SECRET == None

(***************************************************************************)
(* Inputs of authorize_webhook: every personEmail over j, z and @ up to     *)
(* MaxEmailLen characters, and the envelopes without personEmail or data.  *)
(***************************************************************************)
Emails == UNION {[1..n -> {"j", "z", "@"}] : n \in 0..MaxEmailLen}

AuthzTrustEntries ==
    {None, <<"j", "@", "z">>, <<"@", "z">>, <<"j">>, <<"@">>}

AuthzInputs ==
    {Envelope(TopKeys, "messages", "created", Data(DataKeys, e)) : e \in Emails}
    \cup {Envelope(TopKeys, "messages", "created", Data(DataKeys \ {"personEmail"}, None)),
          Envelope(TopKeys \ {"data"}, "messages", "created", None)}

InitAuthz ==
    /\ config \in {Config(t, DEFAULT_SPARK_WEBHOOK_SECRET, FALSE, None) :
                        t \in SUBSET AuthzTrustEntries}
    /\ queue = <<>>
    /\ authz = <<>>
    /\ hook = <<>>
    /\ post = <<>>
    /\ chat = <<>>
    /\ dispatch = <<>>
    /\ sent = <<>>
    /\ handler = <<>>
    /\ notify = <<>>
    /\ running = <<>>
    /\ alert = <<>>
    /\ celery \in CeleryBuilds
    /\ delivery = <<>>
    /\ backend = <<>>

AuthorizeWebhookCall ==
    /\ \E webhook_data \in AuthzInputs :
          authz' = <<[webhook_data |-> webhook_data,
                      result |-> authorize_webhook(webhook_data,
                                                   config["SPARK_TRUSTED_USERS"])]>>
    /\ UNCHANGED <<config, queue, hook, post, chat, dispatch, sent, handler, notify,
                   running, alert, celery, delivery, backend>>

NextAuthz == AuthorizeWebhookCall

SpecAuthz == InitAuthz /\ [][NextAuthz]_vars

(***************************************************************************)
(* handle_spark_webhook (api_common.py).  broker_up says whether the       *)
(* broker accepts the submission (apply_async raises OperationalError      *)
(* otherwise); task_id is the id apply_async gives the new task.  The      *)
(* outcome holds what the call returned or raised, the outcome of the      *)
(* authorize_webhook call it made (<<>> if it made none), the number of    *)
(* apply_async calls and the tasks those calls put on the queue.           *)
(***************************************************************************)
Task(task_id, webhook_data) ==
    [id |-> task_id, name |-> "task_dispatch_spark_command",
     args |-> <<webhook_data>>, retries |-> 0, countdown |-> 0]

Outcome(result, authz_result, attempts, submitted) ==
    [result |-> result, authz |-> authz_result,
     attempts |-> attempts, submitted |-> submitted]

Unsupported ==
    Return(<<[error |-> "No support for that type of resource and/or event"], 400>>)
Malformed ==
    Return(<<[error |-> "The webhook envelope appears to be malformed"], 400>>)
NotAuthorized == Return(<<[error |-> "User not authorized"], 200>>)
NoWorkerTask == Return(<<[error |-> "Unable to create worker task"], 500>>)
Accepted(task_id) == Return(<<[taskid |-> task_id], 200>>)

\* Mutant of submit_dispatch: a failed submission is tried a second time.
submit_dispatch_again(data, authz_result, broker_up, task_id) ==
    IF ~broker_up THEN Outcome(NoWorkerTask, authz_result, 2, <<>>)
    ELSE IF "name" \notin DOMAIN data
         THEN Outcome(Raise("KeyError"), authz_result, 1, <<Task(task_id, data)>>)
         ELSE Outcome(Accepted(task_id), authz_result, 1, <<Task(task_id, data)>>)

\* Mutant of submit_dispatch: the task is given the payload, not the envelope.
submit_dispatch_payload(data, authz_result, broker_up, task_id) ==
    IF ~broker_up THEN Outcome(NoWorkerTask, authz_result, 1, <<>>)
    ELSE IF "name" \notin DOMAIN data
         THEN Outcome(Raise("KeyError"), authz_result, 1,
                      <<Task(task_id, data["data"])>>)
         ELSE Outcome(Accepted(task_id), authz_result, 1,
                      <<Task(task_id, data["data"])>>)

\* Lines 125-143: the submission and what follows it.
submit_dispatch(data, authz_result, broker_up, task_id) ==
    IF ~broker_up THEN Outcome(NoWorkerTask, authz_result, 1, <<>>)
    ELSE IF "name" \notin DOMAIN data
         THEN Outcome(Raise("KeyError"), authz_result, 1, <<Task(task_id, data)>>)
         ELSE Outcome(Accepted(task_id), authz_result, 1, <<Task(task_id, data)>>)

\* Lines 106-123: the authorization of a messages/created envelope.
authorize_and_submit(data, trusted, broker_up, task_id) ==
    LET a == authorize_webhook(data, trusted)
    IN  IF a.kind = "raise"
        THEN IF a.exc = "KeyError" THEN Outcome(Malformed, <<a>>, 0, <<>>)
             ELSE Outcome(Raise(a.exc), <<a>>, 0, <<>>)
        ELSE IF ~a.value THEN Outcome(NotAuthorized, <<a>>, 0, <<>>)
        ELSE submit_dispatch(data, <<a>>, broker_up, task_id)

\* Lines 97-104: is the envelope one for a new message?  "reject" and
\* "malformed" (a KeyError: the test itself or the log line that formats
\* name, resource and event) both end the call with status 400.
\* Mutant: "and" in place of "or".
resource_event_check_and(data) ==
    IF "resource" \notin DOMAIN data THEN "malformed"
    ELSE IF data["resource"] = "messages" THEN "pass"
    ELSE IF "event" \notin DOMAIN data THEN "malformed"
    ELSE IF data["event"] # "created"
         THEN IF "name" \in DOMAIN data THEN "reject" ELSE "malformed"
         ELSE "pass"

resource_event_check(data) ==
    IF "resource" \notin DOMAIN data THEN "malformed"
    ELSE IF data["resource"] # "messages"
         THEN IF "name" \in DOMAIN data /\ "event" \in DOMAIN data
              THEN "reject" ELSE "malformed"
    ELSE IF "event" \notin DOMAIN data THEN "malformed"
    ELSE IF data["event"] # "created"
         THEN IF "name" \in DOMAIN data THEN "reject" ELSE "malformed"
         ELSE "pass"

handle_spark_webhook(data, trusted, broker_up, task_id) ==
    LET c == resource_event_check(data)
    IN  IF c = "malformed" THEN Outcome(Malformed, <<>>, 0, <<>>)
        ELSE IF c = "reject" THEN Outcome(Unsupported, <<>>, 0, <<>>)
        ELSE authorize_and_submit(data, trusted, broker_up, task_id)

(***************************************************************************)
(* send_spark_alert_message (api_common.py) and Alert.post (v1.py).  The   *)
(* recipient, the subject and the message are strs whose characters        *)
(* matter; message is None when the alert has no body.                     *)
(***************************************************************************)
AlertOutcome(result, submitted) == [result |-> result, submitted |-> submitted]

\* Lines 190-221: the task is published and its id returned.
send_spark_alert_message(sendto, subject, message, broker_up, task_id) ==
    LET to == IF \E i \in 1..Len(sendto) : sendto[i] = "@"
              THEN [emails |-> <<sendto>>]
              ELSE [id |-> sendto]
        text == IF message # None
                THEN subject \o <<"\n", "\n">> \o message
                ELSE subject
    IN  IF ~broker_up THEN AlertOutcome(NoWorkerTask, <<>>)
        ELSE AlertOutcome(Return([to |-> sendto, message |-> text,
                                  taskid |-> task_id]),
                          <<[id |-> task_id, name |-> "task_send_spark_message",
                             args |-> <<to, text>>, retries |-> 0,
                             countdown |-> 0]>>)

\* The alerts drawn: to a person and to a room, with a subject and with no
\* message or a text, and to a room with an empty message.
AlertInputs ==
    {<<sendto, <<"s", "u", "b", "j">>, message>> :
        sendto \in {<<"j", "@", "z">>, <<"r", "1">>},
        message \in {None, <<"b", "o", "d", "y">>}}
    \cup {<<<<"r", "1">>, <<"s", "u", "b", "j">>, <<>>>>}

(***************************************************************************)
(* handle_spark_webhook called on its own, as ApiCommonTestCase does.  No  *)
(* worker runs here: a task the call submits stays on the queue, and what  *)
(* a worker does with it is explored from InitDispatch and InitCommand.    *)
(***************************************************************************)
HandleEmails ==
    {<<"j", "@", "z">>, <<"z", "@", "z">>, <<"z", "@", "j">>, <<"j">>}

HandleTrustEntries == {None, <<"j", "@", "z">>, <<"@", "z">>}

Resources == {"messages", "rooms"}
Events == {"created", "deleted"}

Envelopes ==
    {Envelope(keys, r, e, d) :
        keys \in SUBSET TopKeys, r \in Resources, e \in Events,
        d \in {Data(DataKeys, m) : m \in HandleEmails}
              \cup {Data(DataKeys \ {"personEmail"}, None)}}

TaskIds == 1..(MaxQueue + 1)

QueuedIds == {queue[i].id : i \in 1..Len(queue)}

InitHandle ==
    /\ config \in {Config(t, DEFAULT_SPARK_WEBHOOK_SECRET, FALSE, None) :
                        t \in SUBSET HandleTrustEntries}
    /\ queue = <<>>
    /\ authz = <<>>
    /\ hook = <<>>
    /\ post = <<>>
    /\ chat = <<>>
    /\ dispatch = <<>>
    /\ sent = <<>>
    /\ handler = <<>>
    /\ notify = <<>>
    /\ running = <<>>
    /\ alert = <<>>
    /\ celery \in CeleryBuilds
    /\ delivery = <<>>
    /\ backend = <<>>

\* One call of handle_spark_webhook, made when the caller has read the
\* result of the call before.  A run in which the broker accepts the task
\* is explored only while the queue is below MaxQueue.
HandleSparkWebhookCall ==
    /\ hook = <<>>
    /\ \E data \in Envelopes, broker_up \in BOOLEAN, task_id \in TaskIds \ QueuedIds :
          /\ broker_up => Len(queue) < MaxQueue
          /\ LET out == handle_spark_webhook(data, config["SPARK_TRUSTED_USERS"],
                                             broker_up, task_id)
             IN  /\ hook' = <<[data |-> data, broker_up |-> broker_up,
                               task_id |-> task_id, out |-> out]>>
                 /\ queue' = queue \o out.submitted
    /\ UNCHANGED <<config, authz, post, chat, dispatch, sent, handler, notify, running, alert, celery, delivery,
                   backend>>

\* The caller has read the result; the next call can be made.
HandleSparkWebhookDone ==
    /\ hook # <<>>
    /\ hook' = <<>>
    /\ UNCHANGED <<config, queue, authz, post, chat, dispatch, sent, handler, notify,
                   running, alert, celery, delivery, backend>>

NextHandle ==
    \/ HandleSparkWebhookCall
    \/ HandleSparkWebhookDone

SpecHandle == InitHandle /\ [][NextHandle]_vars

(***************************************************************************)
(* Webhook.post (v1.py).  A request is its Content-Length header, its      *)
(* X-Spark-Signature header (None when not sent) and its body: <<d>> when  *)
(* the body is the JSON object d, <<>> when it is not JSON, for which      *)
(* request.get_json() raises BadRequest.  The HMAC-SHA1 hex digest of a    *)
(* body under a key is held as the triple below: two digests are equal      *)
(* exactly when key and body are.                                          *)
(***************************************************************************)
Digits == {"0", "1", "2", "3", "4", "5", "6", "7", "8", "9"}

DigitValue(c) ==
    CASE c = "0" -> 0 [] c = "1" -> 1 [] c = "2" -> 2 [] c = "3" -> 3
      [] c = "4" -> 4 [] c = "5" -> 5 [] c = "6" -> 6 [] c = "7" -> 7
      [] c = "8" -> 8 [] c = "9" -> 9

RECURSIVE DecimalValue(_)
DecimalValue(s) ==
    IF s = <<>> THEN 0
    ELSE 10 * DecimalValue(SubSeq(s, 1, Len(s) - 1)) + DigitValue(s[Len(s)])

\* int(cl) for the header values drawn here: None raises TypeError, a str
\* that is not a run of digits raises ValueError.
int(cl) ==
    IF cl = None THEN Raise("TypeError")
    ELSE IF cl = <<>> \/ \E i \in 1..Len(cl) : cl[i] \notin Digits
         THEN Raise("ValueError")
         ELSE Return(DecimalValue(cl))

hmac_sha1_hexdigest(key, body) == <<"hmac-sha1", key, body>>

get_json(body) == IF body = <<>> THEN Raise("BadRequest") ELSE Return(body[1])

PostOutcome(result, handled) == [result |-> result, handle |-> handled]

Unauthorized == Return(<<[error |-> "Unauthorized"], 403>>)

\* Lines 136: the request is handed to handle_spark_webhook.
post_handle(reqjson, cfg, broker_up, task_id) ==
    LET out == handle_spark_webhook(reqjson, cfg["SPARK_TRUSTED_USERS"],
                                    broker_up, task_id)
    IN  PostOutcome(out.result, <<out>>)

\* Mutant of post_authenticate: a request without the header is let through.
post_authenticate_header_optional(request, reqjson, cfg, broker_up, task_id) ==
    IF "SPARK_WEBHOOK_SECRET" \in DOMAIN cfg /\ request.signature # None
    THEN IF cfg["SPARK_WEBHOOK_SECRET"] = None
         THEN PostOutcome(Raise("TypeError"), <<>>)
         ELSE IF hmac_sha1_hexdigest(cfg["SPARK_WEBHOOK_SECRET"], request.body)
                    # request.signature
              THEN PostOutcome(Unauthorized, <<>>)
              ELSE post_handle(reqjson, cfg, broker_up, task_id)
    ELSE post_handle(reqjson, cfg, broker_up, task_id)

\* Lines 102-136: the signature check.  bytes(None, 'utf-8') raises
\* TypeError when the setting is present with the value None.
post_authenticate(request, reqjson, cfg, broker_up, task_id) ==
    IF "SPARK_WEBHOOK_SECRET" \in DOMAIN cfg
    THEN IF request.signature = None THEN PostOutcome(Unauthorized, <<>>)
         ELSE IF cfg["SPARK_WEBHOOK_SECRET"] = None
              THEN PostOutcome(Raise("TypeError"), <<>>)
         ELSE IF hmac_sha1_hexdigest(cfg["SPARK_WEBHOOK_SECRET"], request.body)
                    # request.signature
              THEN PostOutcome(Unauthorized, <<>>)
              ELSE post_handle(reqjson, cfg, broker_up, task_id)
    ELSE post_handle(reqjson, cfg, broker_up, task_id)

\* Lines 82-100: the Content-Length check and the parsing of the body.
\* "cl > MAX_CONTENT_LENGTH" raises TypeError when the setting is None.
webhook_post(request, cfg, broker_up, task_id) ==
    LET cl == int(request.content_length)
    IN  IF cl.kind = "raise"
        THEN IF cl.exc = "ValueError"
             THEN PostOutcome(Return(<<[error |-> "Bad request"], 400>>), <<>>)
             ELSE PostOutcome(Raise(cl.exc), <<>>)
        ELSE IF cl.value # 0 /\ cfg["MAX_CONTENT_LENGTH"] = None
             THEN PostOutcome(Raise("TypeError"), <<>>)
        ELSE IF cl.value # 0 /\ cl.value > cfg["MAX_CONTENT_LENGTH"][2]
             THEN PostOutcome(Return(<<[error |-> "Too big"], 413>>), <<>>)
        ELSE LET reqjson == get_json(request.body)
             IN  IF reqjson.kind = "raise"
                 THEN PostOutcome(Raise(reqjson.exc), <<>>)
                 ELSE post_authenticate(request, reqjson.value, cfg,
                                        broker_up, task_id)

(***************************************************************************)
(* Requests served by Webhook.post.  As above no worker runs here: the     *)
(* task of an accepted webhook stays on the queue.                         *)
(***************************************************************************)
MaxContentLength == 8    \* the MAX_CONTENT_LENGTH a deployment configures

Secret1 == <<"k", "1">>
Secret2 == <<"k", "2">>

PostBodies ==
    {<<>>,
     <<Envelope(TopKeys, "messages", "created", Data(DataKeys, <<"j", "@", "z">>))>>,
     <<Envelope(TopKeys, "rooms", "created", Data(DataKeys, <<"j", "@", "z">>))>>,
     <<Envelope(TopKeys \ {"id", "name"}, "messages", "created",
                Data(DataKeys, <<"z", "@", "j">>))>>}

ContentLengths == {None, <<>>, <<"z", "p", "a", "r", "k">>, <<"0">>, <<"5">>, <<"9", "9">>}

Signatures ==
    {None} \cup {hmac_sha1_hexdigest(k, b) : k \in {Secret1, Secret2}, b \in PostBodies}

Requests ==
    [content_length : ContentLengths, signature : Signatures, body : PostBodies]

InitPost ==
    /\ config \in {Config(t, k, a, m) :
                        t \in {{}, DEFAULT_SPARK_TRUSTED_USERS},
                        k \in {DEFAULT_SPARK_WEBHOOK_SECRET, Secret1},
                        a \in BOOLEAN,
                        m \in {None, PyInt(MaxContentLength)}}
    /\ queue = <<>>
    /\ authz = <<>>
    /\ hook = <<>>
    /\ post = <<>>
    /\ chat = <<>>
    /\ dispatch = <<>>
    /\ sent = <<>>
    /\ handler = <<>>
    /\ notify = <<>>
    /\ running = <<>>
    /\ alert = <<>>
    /\ celery \in CeleryBuilds
    /\ delivery = <<>>
    /\ backend = <<>>

\* One POST to /webhook.  A run in which the broker accepts the task is
\* explored only while the queue is below MaxQueue.
WebhookPost ==
    /\ post = <<>>
    /\ \E request \in Requests, broker_up \in BOOLEAN, task_id \in TaskIds \ QueuedIds :
          /\ broker_up => Len(queue) < MaxQueue
          /\ LET out == webhook_post(request, config, broker_up, task_id)
             IN  /\ post' = <<[request |-> request, broker_up |-> broker_up,
                               task_id |-> task_id, out |-> out]>>
                 /\ queue' = queue \o (IF out.handle = <<>> THEN <<>>
                                       ELSE out.handle[1].submitted)
    /\ UNCHANGED <<config, authz, hook, chat, dispatch, sent, handler, notify, running, alert, celery, delivery,
                   backend>>

\* The response has been sent; the next request can be served.
WebhookPostDone ==
    /\ post # <<>>
    /\ post' = <<>>
    /\ UNCHANGED <<config, queue, authz, hook, chat, dispatch, sent, handler, notify,
                   running, alert, celery, delivery, backend>>

NextPost ==
    \/ WebhookPost
    \/ WebhookPostDone

SpecPost == InitPost /\ [][NextPost]_vars


(***************************************************************************)
(* task_dispatch_spark_command (tasks.py): the text handling.              *)
(***************************************************************************)
LowerLetters ==
    <<"a", "b", "c", "d", "e", "f", "g", "h", "i", "j", "k", "l", "m", "n", "o", "p", "q", "r", "s", "t", "u", "v", "w", "x", "y", "z">>
UpperLetters ==
    <<"A", "B", "C", "D", "E", "F", "G", "H", "I", "J", "K", "L", "M", "N", "O", "P", "Q", "R", "S", "T", "U", "V", "W", "X", "Y", "Z">>
Letters == {LowerLetters[i] : i \in 1..26} \cup {UpperLetters[i] : i \in 1..26}

\* Variant of lower_char: the character is left as it is.
lower_char_unchanged(c) == c

\* str.lower() on the characters drawn here.
lower_char(c) ==
    IF \E i \in 1..26 : UpperLetters[i] = c
    THEN LowerLetters[CHOOSE i \in 1..26 : UpperLetters[i] = c]
    ELSE c

lower(s) == [i \in 1..Len(s) |-> lower_char(s[i])]

\* What \s of a str pattern matches among the ASCII characters, the
\* characters the texts drawn here are made of: the space, \t, \n, \r, \f,
\* the vertical tab (0x0b) and the four separators 0x1c to 0x1f.
Whitespace == {" ", "\t", "\n", "\r", "\f", "", "", "", "", ""}
Delimiters == {",", ":", ";"}                  \* what [,:;] matches

StartsWith(s, prefix) ==
    /\ Len(prefix) <= Len(s)
    /\ SubSeq(s, 1, Len(prefix)) = prefix

\* The first index from i on whose character is not in chars (Len(s) + 1
\* when there is none): where a greedy "[chars]*" started at i stops.
SkipWhile(s, i, chars) ==
    CHOOSE j \in i..(Len(s) + 1) :
        /\ \A k \in i..(j - 1) : s[k] \in chars
        /\ j = Len(s) + 1 \/ s[j] \notin chars

\* The first index after i that holds c, 0 when there is none.
IndexAfter(s, c, i) ==
    LET at == {j \in (i + 1)..Len(s) : s[j] = c}
    IN  IF at = {} THEN 0 ELSE CHOOSE j \in at : \A k \in at : j <= k

MentionOpen == <<"<", "s", "p", "a", "r", "k", "-", "m", "e", "n", "t", "i", "o", "n">>
MentionClose ==
    <<"<", "/", "s", "p", "a", "r", "k", "-", "m", "e", "n", "t", "i", "o", "n", ">">>

\* re.match('^<spark-mention[^>]+>([^<]+)<\/spark-mention>', msg.html):
\* <<>> for None, <<group(1)>> for a match.
mention_match(html) ==
    IF ~StartsWith(html, MentionOpen) THEN <<>>
    ELSE LET open_end == IndexAfter(html, ">", Len(MentionOpen))
         IN  IF open_end < Len(MentionOpen) + 2 THEN <<>>
             ELSE LET close_start == IndexAfter(html, "<", open_end)
                  IN  IF close_start < open_end + 2 THEN <<>>
                      ELSE IF StartsWith(SubSeq(html, close_start, Len(html)),
                                         MentionClose)
                           THEN <<SubSeq(html, open_end + 1, close_start - 1)>>
                           ELSE <<>>

\* Variant of split_bot_name: white space is skipped before the delimiters.
split_bot_name_whitespace_first(bot_name, text) ==
    IF StartsWith(text, bot_name)
    THEN <<<<>>, SubSeq(text,
                        SkipWhile(text,
                                  SkipWhile(text, Len(bot_name) + 1, Whitespace),
                                  Delimiters),
                        Len(text))>>
    ELSE <<text>>

\* Mutant of split_bot_name: the pattern lacks the "[,:;]*" part.
split_bot_name_no_delimiters(bot_name, text) ==
    IF StartsWith(text, bot_name)
    THEN <<<<>>, SubSeq(text, SkipWhile(text, Len(bot_name) + 1, Whitespace),
                        Len(text))>>
    ELSE <<text>>

\* re.split('^' + bot_name + '[,:;]*\s*', msg.text, 1) for a bot_name of
\* letters, digits and spaces (characters that stand for themselves in a
\* pattern): the list of pieces.
split_bot_name(bot_name, text) ==
    IF StartsWith(text, bot_name)
    THEN <<<<>>, SubSeq(text,
                        SkipWhile(text,
                                  SkipWhile(text, Len(bot_name) + 1, Delimiters),
                                  Whitespace),
                        Len(text))>>
    ELSE <<text>>

\* re.fullmatch('^[a-zA-Z0-9 ]+$', cmd) is not None
is_sane_command(cmd) ==
    /\ Len(cmd) >= 1
    /\ \A i \in 1..Len(cmd) : cmd[i] \in Letters \cup Digits \cup {" "}

MAX_COMMAND_LENGTH == 79

\* Variant of extract_command: a group message without the mention is parsed
\* as a direct message is.
extract_command_ignores_missing_mention(msg, room) ==
    LET pieces == IF room["type"] = "group" /\ mention_match(msg["html"]) # <<>>
                  THEN split_bot_name(mention_match(msg["html"])[1], msg["text"])
                  ELSE <<<<>>, msg["text"]>>
    IN  IF Len(pieces) < 2 THEN [kind |-> "raise", exc |-> "IndexError", cmd |-> <<>>]
        ELSE IF Len(pieces[2]) > MAX_COMMAND_LENGTH
             THEN [kind |-> "return", value |-> FALSE, cmd |-> <<pieces[2]>>]
        ELSE IF ~is_sane_command(pieces[2])
             THEN [kind |-> "return", value |-> FALSE, cmd |-> <<pieces[2]>>]
        ELSE [kind |-> "cmd", cmd |-> <<pieces[2]>>]

\* Variant of extract_command: the length of the command is not checked.
extract_command_no_length_check(msg, room) ==
    LET pieces == IF room["type"] = "group"
                  THEN IF mention_match(msg["html"]) = <<>> THEN <<>>
                       ELSE split_bot_name(mention_match(msg["html"])[1], msg["text"])
                  ELSE <<<<>>, msg["text"]>>
    IN  IF pieces = <<>> THEN [kind |-> "return", value |-> FALSE, cmd |-> <<>>]
        ELSE IF Len(pieces) < 2 THEN [kind |-> "raise", exc |-> "IndexError", cmd |-> <<>>]
        ELSE IF ~is_sane_command(pieces[2])
             THEN [kind |-> "return", value |-> FALSE, cmd |-> <<pieces[2]>>]
        ELSE [kind |-> "cmd", cmd |-> <<pieces[2]>>]

\* Variant of extract_command: a command of MAX_COMMAND_LENGTH characters is
\* already too long.
extract_command_off_by_one(msg, room) ==
    LET pieces == IF room["type"] = "group"
                  THEN IF mention_match(msg["html"]) = <<>> THEN <<>>
                       ELSE split_bot_name(mention_match(msg["html"])[1], msg["text"])
                  ELSE <<<<>>, msg["text"]>>
    IN  IF pieces = <<>> THEN [kind |-> "return", value |-> FALSE, cmd |-> <<>>]
        ELSE IF Len(pieces) < 2 THEN [kind |-> "raise", exc |-> "IndexError", cmd |-> <<>>]
        ELSE IF Len(pieces[2]) >= MAX_COMMAND_LENGTH
             THEN [kind |-> "return", value |-> FALSE, cmd |-> <<pieces[2]>>]
        ELSE IF ~is_sane_command(pieces[2])
             THEN [kind |-> "return", value |-> FALSE, cmd |-> <<pieces[2]>>]
        ELSE [kind |-> "cmd", cmd |-> <<pieces[2]>>]

\* Lines 86-122: the command of a message, or why there is none.
extract_command(msg, room) ==
    LET pieces == IF room["type"] = "group"
                  THEN IF mention_match(msg["html"]) = <<>> THEN <<>>
                       ELSE split_bot_name(mention_match(msg["html"])[1], msg["text"])
                  ELSE <<<<>>, msg["text"]>>
    IN  IF pieces = <<>> THEN [kind |-> "return", value |-> FALSE, cmd |-> <<>>]
        ELSE IF Len(pieces) < 2 THEN [kind |-> "raise", exc |-> "IndexError", cmd |-> <<>>]
        ELSE IF Len(pieces[2]) > MAX_COMMAND_LENGTH
             THEN [kind |-> "return", value |-> FALSE, cmd |-> <<pieces[2]>>]
        ELSE IF ~is_sane_command(pieces[2])
             THEN [kind |-> "return", value |-> FALSE, cmd |-> <<pieces[2]>>]
        ELSE [kind |-> "cmd", cmd |-> <<pieces[2]>>]

Hello == <<"h", "e", "l", "l", "o">>
ShowIssues == <<"s", "h", "o", "w", " ", "i", "s", "s", "u", "e", "s">>
ShowStatus == <<"s", "h", "o", "w", " ", "s", "t", "a", "t", "u", "s">>

\* Variant of dispatch_map_get: the two report tasks are exchanged.
dispatch_map_get_swapped(key) ==
    IF key = Hello THEN <<"task_say_hello">>
    ELSE IF key = ShowIssues THEN <<"task_report_zabbix_server_status">>
    ELSE IF key = ShowStatus THEN <<"task_report_zabbix_active_issues">>
    ELSE <<>>

\* Variant of dispatch_map_get: a key that is not in the table selects the
\* hello task.
dispatch_map_get_default_hello(key) ==
    IF key = ShowIssues THEN <<"task_report_zabbix_active_issues">>
    ELSE IF key = ShowStatus THEN <<"task_report_zabbix_server_status">>
    ELSE <<"task_say_hello">>

\* dispatch_map.get(cmd.lower(), None): <<>> for None, <<task name>> otherwise.
dispatch_map_get(key) ==
    IF key = Hello THEN <<"task_say_hello">>
    ELSE IF key = ShowIssues THEN <<"task_report_zabbix_active_issues">>
    ELSE IF key = ShowStatus THEN <<"task_report_zabbix_server_status">>
    ELSE <<>>

\* utils.obj_to_dict: the attributes whose names do not start with "_".
PrivateAttrs == {"_json"}
obj_to_dict(obj) == [a \in DOMAIN obj \ PrivateAttrs |-> obj[a]]

(***************************************************************************)
(* task_dispatch_spark_command (tasks.py): one execution of the task.      *)
(* chat holds what the Spark API returns for the ids of the webhook (the   *)
(* message, its room, the caller); api says which of the three API calls   *)
(* succeed (a failing one raises SparkApiError with the status api.code,   *)
(* which no except clause looks at); broker_up says whether the handler's  *)
(* apply_async succeeds; task_id is the id it gives the handler task.      *)
(* The result kind "retry" stands for self.retry(exc=e).                   *)
(***************************************************************************)
Retry(e) == [kind |-> "retry", exc |-> e]

DispatchOutcome(result, calls, cmd, submitted) ==
    [result |-> result, calls |-> calls, cmd |-> cmd, submitted |-> submitted]

HandlerTask(task_id, name, args) ==
    [id |-> task_id, name |-> name, args |-> args, retries |-> 0,
     countdown |-> 0]

\* Lines 59-67: the keys the first log line reads.
HasDispatchKeys(webhook_data) ==
    /\ {"data", "id", "name", "actorId"} \subseteq DOMAIN webhook_data
    /\ {"id", "roomId", "personEmail"} \subseteq DOMAIN webhook_data["data"]

\* Variant of dispatch_command: the caller is looked up after the handler
\* has been submitted.
dispatch_command_submits_first(cmd, chat_data, api, broker_up, task_id) ==
    LET calls == <<"messages.get", "rooms.get", "people.get">>
        task == dispatch_map_get(lower(cmd))
        submitted == <<HandlerTask(task_id, task[1],
                                   <<obj_to_dict(chat_data.room),
                                     obj_to_dict(chat_data.person)>>)>>
    IN  IF task = <<>>
        THEN DispatchOutcome(Return(FALSE), calls, <<cmd>>, <<>>)
        ELSE IF ~broker_up
             THEN DispatchOutcome(Raise("OperationalError"), calls, <<cmd>>, <<>>)
        ELSE IF ~api.person
             THEN DispatchOutcome(Retry("SparkApiError"), calls, <<cmd>>, submitted)
        ELSE DispatchOutcome(Return(TRUE), calls, <<cmd>>, submitted)

\* Variant of dispatch_command: a refused submission is retried as well.
dispatch_command_retries_any_error(cmd, chat_data, api, broker_up, task_id) ==
    LET calls == <<"messages.get", "rooms.get", "people.get">>
        task == dispatch_map_get(lower(cmd))
    IN  IF ~api.person
        THEN DispatchOutcome(Retry("SparkApiError"), calls, <<cmd>>, <<>>)
        ELSE IF task = <<>>
             THEN DispatchOutcome(Return(FALSE), calls, <<cmd>>, <<>>)
        ELSE IF ~broker_up
             THEN DispatchOutcome(Retry("OperationalError"), calls, <<cmd>>, <<>>)
        ELSE DispatchOutcome(Return(TRUE), calls, <<cmd>>,
                <<HandlerTask(task_id, task[1],
                              <<obj_to_dict(chat_data.room),
                                obj_to_dict(chat_data.person)>>)>>)

\* Lines 124-161: the caller's profile, the table lookup and the submission.
dispatch_command(cmd, chat_data, api, broker_up, task_id) ==
    LET calls == <<"messages.get", "rooms.get", "people.get">>
        task == dispatch_map_get(lower(cmd))
    IN  IF ~api.person
        THEN DispatchOutcome(Retry("SparkApiError"), calls, <<cmd>>, <<>>)
        ELSE IF task = <<>>
             THEN DispatchOutcome(Return(FALSE), calls, <<cmd>>, <<>>)
        ELSE IF ~broker_up
             THEN DispatchOutcome(Raise("OperationalError"), calls, <<cmd>>, <<>>)
        ELSE DispatchOutcome(Return(TRUE), calls, <<cmd>>,
                <<HandlerTask(task_id, task[1],
                              <<obj_to_dict(chat_data.room),
                                obj_to_dict(chat_data.person)>>)>>)

task_dispatch_spark_command(webhook_data, chat_data, api, broker_up, task_id) ==
    IF ~HasDispatchKeys(webhook_data)
    THEN DispatchOutcome(Raise("KeyError"), <<>>, <<>>, <<>>)
    ELSE IF ~api.msg
         THEN DispatchOutcome(Retry("SparkApiError"), <<"messages.get">>, <<>>, <<>>)
    ELSE IF ~api.room
         THEN DispatchOutcome(Retry("SparkApiError"),
                              <<"messages.get", "rooms.get">>, <<>>, <<>>)
    ELSE LET x == extract_command(chat_data.msg, chat_data.room)
         IN  IF x.kind = "return"
             THEN DispatchOutcome(Return(x.value),
                                  <<"messages.get", "rooms.get">>, x.cmd, <<>>)
             ELSE IF x.kind = "raise"
                  THEN DispatchOutcome(Raise(x.exc),
                                       <<"messages.get", "rooms.get">>, x.cmd, <<>>)
             ELSE dispatch_command(x.cmd[1], chat_data, api, broker_up, task_id)

MAX_RETRIES == 3

\* The default_retry_delay of the task decorators (lines 30, 164, 202, 251,
\* 326), in seconds.
default_retry_delay(name) ==
    IF name \in {"task_report_zabbix_active_issues",
                 "task_report_zabbix_server_status"}
    THEN 15 ELSE 20

\* Variant of retry_countdown: the delay doubles with every retry.
retry_countdown_backoff(task) == default_retry_delay(task.name) * 2 ^ task.retries

\* Variant of retry_countdown: the retry is due at once.
retry_countdown_none(task) == 0

\* self.retry(exc=e) names neither countdown nor eta: Task.retry takes the
\* task's default_retry_delay, whatever request.retries is.
retry_countdown(task) == default_retry_delay(task.name)

\* Variant of retry_state: the refused retry is recorded as a retry.
retry_state_one_more(task) == IF task.retries > MAX_RETRIES THEN "FAILURE" ELSE "RETRY"

\* Task.retry of a task run by a worker: what the worker records for the
\* execution, and the message it publishes before it raises Retry: the
\* task with one retry more, not to be run before its countdown has elapsed
\* (none once the task has been retried MAX_RETRIES times: the error is
\* raised instead).
retry_state(task) == IF task.retries >= MAX_RETRIES THEN "FAILURE" ELSE "RETRY"

\* Variant of retry_requeue: one retry more is allowed.
retry_requeue_one_more(task) ==
    IF task.retries > MAX_RETRIES THEN <<>>
    ELSE <<[task EXCEPT !.retries = task.retries + 1,
                        !.countdown = retry_countdown(task)]>>

retry_requeue(task) ==
    IF task.retries >= MAX_RETRIES THEN <<>>
    ELSE <<[task EXCEPT !.retries = task.retries + 1,
                        !.countdown = retry_countdown(task)]>>

\* Variant of worker_takes: the worker runs message i and the head of the
\* queue is the one removed.
worker_takes_head(q, i) == Tail(q)

worker_takes(q, i) == SubSeq(q, 1, i - 1) \o SubSeq(q, i + 1, Len(q))

\* The tasks worker w has taken and not finished.
Taken(w) == {k \in 1..Len(running) : running[k].worker = w}

\* The countdown of a queued retry elapses: the message is due and a worker
\* may take it.  The attempt that published it has ended by then:
\* self.retry is the last statement of every except branch (tasks.py:74,
\* 82, 131, 199, 248, 296, 323, 413, 430), so once Task.retry has published
\* the message the attempt has only Retry left to raise, which takes less
\* than the 15 or 20 seconds of the countdown.
CountdownElapses ==
    \E i \in 1..Len(queue) :
        /\ queue[i].countdown > 0
        /\ \A k \in 1..Len(running) : running[k].task.id # queue[i].id
        /\ queue' = [queue EXCEPT ![i].countdown = 0]
        /\ UNCHANGED <<config, authz, hook, post, chat, dispatch, sent, handler, notify,
                       running, alert, celery, delivery, backend>>

\* What the worker records for an execution that ended with result: a Retry
\* that leaves the task function is recorded as a retry, whether or not
\* self.retry has published one.
worker_state(task, result) ==
    IF result.kind = "retry" THEN retry_state(task)
    ELSE IF result.kind = "raise"
         THEN (IF result.exc = "Retry" THEN "RETRY" ELSE "FAILURE")
         ELSE "SUCCESS"

(***************************************************************************)
(* Messages, rooms and people of the chat platform.                        *)
(***************************************************************************)
Zpark == <<"Z", "p", "a", "r", "k">>
ZparkBot == <<"Z", "p", "a", "r", "k", " ", "B", "o", "t">>
MentionAttrs ==
    <<" ", "d", "a", "t", "a", "-", "o", "b", "j", "e", "c", "t", "-", "t", "y", "p", "e", "=", "\"", "p", "e", "r", "s", "o", "n", "\"", " ", "d", "a", "t", "a", "-", "o", "b", "j", "e", "c", "t", "-", "i", "d", "=", "\"", "1", "3", "5", "7", "9", "\"">>

Mention(name) == MentionOpen \o MentionAttrs \o <<">">> \o name \o MentionClose

Message(text, html) ==
    [id |-> "msgid12345", roomId |-> "roomid12345", text |-> text,
     personId |-> "personid12345",
     personEmail |-> <<"j", "@", "z">>, html |-> html, _json |-> "{...}"]

Room(type) ==
    [id |-> "roomid12345", title |-> "Zpark UT", type |-> type, _json |-> "{...}"]

Person ==
    [id |-> "personid12345", emails |-> <<<<"j", "@", "z">>>>,
     displayName |-> "Charlie Root", _json |-> "{...}"]

\* The delimiters of test_task_dispatch_spark_command_with_delimiters, and
\* two with whitespace that \s matches besides the space: a vertical tab,
\* and a file separator between a comma and a space.
TestDelimiters ==
    {<<>>, <<" ">>, <<",">>, <<",", " ">>, <<";">>, <<";", " ">>, <<":">>, <<":", " ">>,
     <<"">>, <<",", "", " ">>}

Sandwich == <<"s", "u", "d", "o", " ", "m", "a", "k", "e", " ", "m", "e", " ", "a", " ", "s", "a", "n", "d", "w", "i", "c", "h">>

RECURSIVE Repeat(_, _)
Repeat(s, n) == IF n = 0 THEN <<>> ELSE s \o Repeat(s, n - 1)

\* 'show' + ' run' * 25: the 104 characters of
\* test_task_dispatch_spark_command_loooong_command.
LongCommand == <<"s", "h", "o", "w">> \o Repeat(<<" ", "r", "u", "n">>, 25)

\* Commands at the length limit and past it, and with characters outside
\* a-z, A-Z, 0-9 and space.
OddCommands ==
    {LongCommand,
     SubSeq(LongCommand, 1, MAX_COMMAND_LENGTH - 1),
     SubSeq(LongCommand, 1, MAX_COMMAND_LENGTH),
     SubSeq(LongCommand, 1, MAX_COMMAND_LENGTH + 1),
     <<"!", "s", "h", "o", "w", " ", "i", "s", "s", "u", "e", "s">>,
     <<"&", "&", " ", "l", "s", " ", "-", "l">>,
     ShowIssues \o <<"\n">>}

\* Commands that differ from a dispatch_map key in letter case only, that
\* are a prefix of a key, or that a key is a prefix of.
CaseAndPrefixCommands ==
    {<<"H", "E", "L", "L", "O">>, <<"s", "H", "o", "W", " ", "s", "T", "a", "T", "u", "S">>, <<"S", "H", "O", "W", " ", "I", "S", "S", "U", "E", "S">>,
     <<"s", "h", "o", "w">>, <<"H", "e", "l", "l">>,
     <<"s", "h", "o", "w", " ", "i", "s", "s", "u", "e", "s", " ", "n", "o", "w">>, <<"h", "e", "l", "l", "o", " ", "w", "o", "r", "l", "d">>}

Messages ==
    {Message(Zpark \o d \o ShowIssues, Mention(Zpark) \o d \o ShowIssues) :
        d \in TestDelimiters}
    \cup {Message(Zpark \o <<" ">> \o c, Mention(Zpark) \o <<" ">> \o c) :
            c \in {Hello, ShowStatus, Sandwich, <<"S", "h", "o", "w", " ", "I", "s", "s", "u", "e", "s">>}}
    \cup {Message(ShowIssues, ShowIssues),
          Message(ShowIssues, Mention(Zpark) \o <<" ">> \o ShowIssues),
          Message(Zpark \o <<" ", ",", " ">> \o ShowIssues,
                  Mention(Zpark) \o <<" ", ",", " ">> \o ShowIssues),
          Message(Zpark \o <<" ">> \o ShowIssues,
                  <<"<", "p", ">">> \o Mention(Zpark) \o <<" ">> \o ShowIssues
                      \o <<"<", "/", "p", ">">>),
          Message(ZparkBot \o <<" ">> \o ShowIssues,
                  <<"<", "p", ">">> \o Mention(ZparkBot \o <<" ">>) \o <<" ">>
                      \o ShowIssues \o <<"<", "/", "p", ">">>),
          Message(ZparkBot \o <<" ">> \o ShowIssues,
                  Mention(ZparkBot \o <<" ">>) \o <<" ">> \o ShowIssues),
          Message(<<" ">> \o ShowIssues, <<"<", "p", ">">> \o ShowIssues),
          Message(Hello \o <<" ">>, <<"<", "p", ">">> \o Hello),
          Message(Zpark, Mention(Zpark))}
    \cup {Message(Zpark \o <<" ">> \o c, Mention(Zpark) \o <<" ">> \o c) :
            c \in OddCommands \cup CaseAndPrefixCommands}
    \cup {Message(c, <<"<", "p", ">">> \o c) : c \in OddCommands}

Chats == [msg : Messages, room : {Room("group"), Room("direct")}, person : {Person}]

DispatchEnvelopes ==
    {Envelope(TopKeys, "messages", "created", Data(DataKeys, <<"j", "@", "z">>)),
     Envelope(TopKeys \ {"name"}, "messages", "created", Data(DataKeys, <<"j", "@", "z">>)),
     Envelope(TopKeys \ {"id", "actorId"}, "messages", "created",
              Data(DataKeys, <<"j", "@", "z">>))}

\* The status codes a SparkApiError is built from: 404 and 409 as in
\* testing.py, 429 and 503 as the platform's rate-limiting and unavailability
\* answers; 200 stands for no error.
ResponseCodes == {404, 409, 429, 503}

ApiOutcomes ==
    {a \in [msg : BOOLEAN, room : BOOLEAN, person : BOOLEAN,
            code : ResponseCodes \cup {200}] :
        (a.code = 200) <=> (a.msg /\ a.room /\ a.person)}

\* No task of this section is run by apply(): the Celery releases do not
\* differ here, and one of them is explored.
InitDispatch ==
    /\ config = Config(DEFAULT_SPARK_TRUSTED_USERS, DEFAULT_SPARK_WEBHOOK_SECRET,
                       FALSE, None)
    /\ queue \in {<<Task(1, d)>> : d \in DispatchEnvelopes}
    /\ chat \in Chats
    /\ authz = <<>>
    /\ hook = <<>>
    /\ post = <<>>
    /\ dispatch = <<>>
    /\ sent = <<>>
    /\ handler = <<>>
    /\ notify = <<>>
    /\ running = <<>>
    /\ alert = <<>>
    /\ celery \in {b \in CeleryBuilds : b.eager_rerun}
    /\ delivery = <<>>
    /\ backend = <<>>

\* A worker takes a queued task_dispatch_spark_command that is due: the
\* message is off the queue before the task function starts.
DispatchTaskStarts ==
    \E i \in 1..Len(queue) :
        /\ running = <<>>
        /\ queue[i].name = "task_dispatch_spark_command"
        /\ queue[i].countdown = 0
        /\ running' = <<[task |-> queue[i], worker |-> "w1", phase |-> "taken"]>>
        /\ queue' = worker_takes(queue, i)
        /\ UNCHANGED <<config, authz, hook, post, chat, dispatch, sent, handler, notify,
                       alert, celery, delivery, backend>>

\* The task function runs to its end: the Spark API answers its requests
\* and the handler, or the retry, is published.
DispatchTaskEnds ==
    \E api \in ApiOutcomes, broker_up \in BOOLEAN, task_id \in TaskIds :
        /\ running # <<>>
        /\ running[1].task.name = "task_dispatch_spark_command"
        /\ task_id \notin QueuedIds \cup {running[1].task.id}
        /\ LET task == running[1].task
               out == task_dispatch_spark_command(task.args[1], chat, api,
                                                  broker_up, task_id)
           IN  /\ dispatch' = <<[task |-> task, called_directly |-> FALSE,
                                 api |-> api, broker_up |-> broker_up,
                                 task_id |-> task_id, out |-> out,
                                 state |-> worker_state(task, out.result)]>>
               /\ queue' = queue \o out.submitted
                                 \o (IF out.result.kind = "retry"
                                     THEN retry_requeue(task) ELSE <<>>)
        /\ running' = <<>>
        /\ UNCHANGED <<config, authz, hook, post, chat, sent, handler, notify, alert, celery, delivery,
                       backend>>

NextDispatch ==
    \/ DispatchTaskStarts
    \/ DispatchTaskEnds
    \/ CountdownElapses

SpecDispatch == InitDispatch /\ [][NextDispatch]_vars

\* Variant of direct_call: the Retry exception is raised instead.
direct_call_raises_retry(out) == out

\* Task.retry when the task was called as a function (request.called_directly):
\* the error given as exc is raised, nothing is re-submitted.
direct_call(out) ==
    IF out.result.kind = "retry"
    THEN [out EXCEPT !.result = Raise(out.result.exc)]
    ELSE out

\* task_dispatch_spark_command(webhook_data) called as a function, as
\* TaskTestCase does before any worker runs.
DispatchTaskCalledDirectly ==
    \E d \in DispatchEnvelopes, api \in ApiOutcomes, broker_up \in BOOLEAN,
       task_id \in TaskIds :
        /\ dispatch = <<>>
        /\ task_id \notin QueuedIds \cup {running[k].task.id : k \in 1..Len(running)}
        /\ LET out == direct_call(task_dispatch_spark_command(d, chat, api,
                                                              broker_up, task_id))
           IN  /\ dispatch' = <<[task |-> Task(None, d), called_directly |-> TRUE,
                                 api |-> api, broker_up |-> broker_up,
                                 task_id |-> task_id, out |-> out,
                                 state |-> IF out.result.kind = "raise"
                                           THEN "RAISED" ELSE "RETURNED"]>>
               /\ queue' = queue \o out.submitted
        /\ UNCHANGED <<config, authz, hook, post, chat, sent, handler, notify, running, alert, celery, delivery,
                       backend>>

NextDispatchCalls ==
    \/ DispatchTaskStarts
    \/ DispatchTaskEnds
    \/ CountdownElapses
    \/ DispatchTaskCalledDirectly

SpecDispatchCalls == InitDispatch /\ [][NextDispatchCalls]_vars

(***************************************************************************)
(* task_send_spark_message and notify_of_failed_command (tasks.py).        *)
(* A message created in Spark is held as the arguments of                  *)
(* spark_api.messages.create; a reply's text and markdown are the names of *)
(* the templates they were rendered from.  fails is the                    *)
(* number of spark_api.messages.create calls that raise SparkApiError      *)
(* before one succeeds.                                                    *)
(***************************************************************************)
\* Lines 228-236: the arguments of spark_api.messages.create.  md is None
\* when the caller passes no markdown and <<m>> when it passes m.
SparkMessage(to, text, md) ==
    IF "emails" \in DOMAIN to
    THEN (IF md = None THEN [toPersonEmail |-> to["emails"][1], text |-> text]
          ELSE [toPersonEmail |-> to["emails"][1], text |-> text, markdown |-> md[1]])
    ELSE (IF md = None THEN [roomId |-> to["id"], text |-> text]
          ELSE [roomId |-> to["id"], text |-> text, markdown |-> md[1]])

SendOutcome(result, creates, created) ==
    [result |-> result, creates |-> creates, created |-> created]

\* task_send_spark_message called as a function (lines 193, 317, 424): one
\* messages.create; self.retry of a directly called task raises the error.
task_send_spark_message(to, text, md, fails) ==
    IF fails > 0 THEN SendOutcome(Raise("SparkApiError"), 1, <<>>)
    ELSE SendOutcome(Return("msgid"), 1, <<SparkMessage(to, text, md)>>)

\* task_send_spark_message.apply(args=(to, text, md)) (line 477): the task
\* runs in the caller's process with a request of its own.  When
\* messages.create fails, self.retry(exc=e) raises celery.exceptions.Retry,
\* and apply lets it through to its caller (task_eager_propagates is set in
\* __init__.py; the tests that patch retry expect Retry out of apply).
\* The Celery release is not pinned by the repository and the releases
\* differ in what self.retry does before it raises: with eager_rerun the
\* retry is run in place first (S.apply().get(), Celery 4.0 to 4.3), so the
\* creates go on until one succeeds or the task has been retried
\* MAX_RETRIES times, when the chat API's error is raised instead; without
\* it (later releases) Retry is raised at once.
task_send_spark_message_apply(to, text, md, fails, eager_rerun) ==
    IF fails = 0
    THEN SendOutcome(Return("EagerResult"), 1, <<SparkMessage(to, text, md)>>)
    ELSE IF ~eager_rerun
         THEN SendOutcome(Raise("Retry"), 1, <<>>)
    ELSE IF fails > MAX_RETRIES
         THEN SendOutcome(Raise("SparkApiError"), MAX_RETRIES + 1, <<>>)
    ELSE SendOutcome(Raise("Retry"), fails + 1, <<SparkMessage(to, text, md)>>)

NotifyOutcome(result, applies, creates, created) ==
    [result |-> result, applies |-> applies, creates |-> creates,
     created |-> created]

\* Variant of notify_of_failed_command: the test on retries is inverted.
notify_of_failed_command_on_retries(room, caller, retries, max_retries, fails, eager_rerun) ==
    IF retries # 0
    THEN LET a == task_send_spark_message_apply(room, "zpark_command_error.txt",
                                                <<"zpark_command_error.md">>, fails,
                                                eager_rerun)
         IN  IF a.result.kind = "raise"
             THEN NotifyOutcome(Raise(a.result.exc), 1, a.creates, a.created)
             ELSE NotifyOutcome(Return(None), 1, a.creates, a.created)
    ELSE NotifyOutcome(Return(None), 0, 0, <<>>)

\* Variant of notify_of_failed_command: the room is told on every try.
notify_of_failed_command_every_try(room, caller, retries, max_retries, fails, eager_rerun) ==
    LET a == task_send_spark_message_apply(room, "zpark_command_error.txt",
                                           <<"zpark_command_error.md">>, fails,
                                                eager_rerun)
    IN  IF a.result.kind = "raise"
        THEN NotifyOutcome(Raise(a.result.exc), 1, a.creates, a.created)
        ELSE NotifyOutcome(Return(None), 1, a.creates, a.created)

notify_of_failed_command(room, caller, retries, max_retries, fails, eager_rerun) ==
    IF retries = 0
    THEN LET a == task_send_spark_message_apply(room, "zpark_command_error.txt",
                                                <<"zpark_command_error.md">>, fails,
                                                eager_rerun)
         IN  IF a.result.kind = "raise"
             THEN NotifyOutcome(Raise(a.result.exc), 1, a.creates, a.created)
             ELSE NotifyOutcome(Return(None), 1, a.creates, a.created)
    ELSE NotifyOutcome(Return(None), 0, 0, <<>>)

(***************************************************************************)
(* notify_of_failed_command called on its own, as TaskTestCase does.       *)
(***************************************************************************)
MaxSent == 2     \* messages held in Spark before no further call is explored

RoomDicts == {obj_to_dict(Room("group")), obj_to_dict(Room("direct"))}

InitNotify ==
    /\ config = Config(DEFAULT_SPARK_TRUSTED_USERS, DEFAULT_SPARK_WEBHOOK_SECRET,
                       FALSE, None)
    /\ queue = <<>>
    /\ authz = <<>>
    /\ hook = <<>>
    /\ post = <<>>
    /\ chat = <<>>
    /\ dispatch = <<>>
    /\ sent = <<>>
    /\ handler = <<>>
    /\ notify = <<>>
    /\ running = <<>>
    /\ alert = <<>>
    /\ celery \in CeleryBuilds
    /\ delivery = <<>>
    /\ backend = <<>>

NotifyOfFailedCommandCall ==
    /\ notify = <<>>
    /\ Len(sent) < MaxSent
    /\ \E room \in RoomDicts, retries \in 0..(MAX_RETRIES + 1),
          max_retries \in {1, MAX_RETRIES}, fails \in 0..(MAX_RETRIES + 1) :
          LET out == notify_of_failed_command(room, obj_to_dict(Person), retries,
                                              max_retries, fails,
                                              celery.eager_rerun)
          IN  /\ notify' = <<[room |-> room, retries |-> retries,
                              max_retries |-> max_retries, fails |-> fails,
                              before |-> Len(sent), out |-> out]>>
              /\ sent' = sent \o out.created
    /\ UNCHANGED <<config, queue, authz, hook, post, chat, dispatch, handler, running, alert, celery, delivery,
                   backend>>

\* The caller has the result; the next call can be made.
NotifyOfFailedCommandDone ==
    /\ notify # <<>>
    /\ notify' = <<>>
    /\ UNCHANGED <<config, queue, authz, hook, post, chat, dispatch, sent, handler,
                   running, alert, celery, delivery, backend>>

NextNotify ==
    \/ NotifyOfFailedCommandCall
    \/ NotifyOfFailedCommandDone

SpecNotify == InitNotify /\ [][NextNotify]_vars

(***************************************************************************)
(* The command handlers (tasks.py): one execution of task_say_hello,       *)
(* task_report_zabbix_active_issues or task_report_zabbix_server_status.   *)
(* retries is self.request.retries, zabbix_ok says whether the Zabbix      *)
(* queries of the execution succeed (one raises ZabbixAPIException         *)
(* otherwise), fails is the number of failing messages.create calls.       *)
(* notify holds the notify_of_failed_command call made, <<>> if none.      *)
(***************************************************************************)
HandlerOutcome(result, queried, notified, created) ==
    [result |-> result, queried |-> queried, notify |-> notified,
     created |-> created]

\* Variant of send_reply: the error comes after the message was delivered.
send_reply_fails_after_delivery(room, template, queried, fails) ==
    LET m == SparkMessage(room, template \o ".txt", <<template \o ".md">>)
    IN  IF fails > 0
        THEN HandlerOutcome(Retry("SparkApiError"), queried, <<>>, <<m>>)
        ELSE HandlerOutcome(Return(None), queried, <<>>, <<m>>)

\* Variant of send_reply: the chat API error is logged and nothing more.
send_reply_swallows_error(room, template, queried, fails) ==
    LET s == task_send_spark_message(room, template \o ".txt", <<template \o ".md">>,
                                     fails)
    IN  HandlerOutcome(Return(None), queried, <<>>, s.created)

\* Lines 306-323 and 415-430: the report is rendered and sent.
send_reply(room, template, queried, fails) ==
    LET s == task_send_spark_message(room, template \o ".txt", <<template \o ".md">>,
                                     fails)
    IN  IF s.result.kind = "raise"
        THEN HandlerOutcome(Retry(s.result.exc), queried, <<>>, s.created)
        ELSE HandlerOutcome(Return(None), queried, <<>>, s.created)

\* Variant of report_handler: the two counters are passed in the other order.
report_handler_swaps_counters(room, caller, retries, zabbix_ok, fails, eager_rerun, template) ==
    IF ~zabbix_ok
    THEN LET n == notify_of_failed_command(room, caller, MAX_RETRIES, retries, fails,
                                            eager_rerun)
             call == [room |-> room, caller |-> caller, retries |-> MAX_RETRIES,
                      max_retries |-> retries, exc |-> "ZabbixAPIException",
                      out |-> n]
         IN  IF n.result.kind = "raise"
             THEN HandlerOutcome(Raise(n.result.exc), TRUE, <<call>>, n.created)
             ELSE HandlerOutcome(Retry("ZabbixAPIException"), TRUE, <<call>>,
                                 n.created)
    ELSE send_reply(room, template, TRUE, fails)

\* Variant of report_handler: the room is notified as on a first try.
report_handler_forgets_retries(room, caller, retries, zabbix_ok, fails, eager_rerun, template) ==
    IF ~zabbix_ok
    THEN LET n == notify_of_failed_command(room, caller, 0, MAX_RETRIES, fails,
                                            eager_rerun)
             call == [room |-> room, caller |-> caller, retries |-> 0,
                      max_retries |-> MAX_RETRIES, exc |-> "ZabbixAPIException",
                      out |-> n]
         IN  IF n.result.kind = "raise"
             THEN HandlerOutcome(Raise(n.result.exc), TRUE, <<call>>, n.created)
             ELSE HandlerOutcome(Retry("ZabbixAPIException"), TRUE, <<call>>,
                                 n.created)
    ELSE send_reply(room, template, TRUE, fails)

\* The body shared by task_report_zabbix_active_issues (lines 276-323) and
\* task_report_zabbix_server_status (lines 349-430).
report_handler(room, caller, retries, zabbix_ok, fails, eager_rerun, template) ==
    IF ~zabbix_ok
    THEN LET n == notify_of_failed_command(room, caller, retries, MAX_RETRIES, fails,
                                            eager_rerun)
             call == [room |-> room, caller |-> caller, retries |-> retries,
                      max_retries |-> MAX_RETRIES, exc |-> "ZabbixAPIException",
                      out |-> n]
         IN  IF n.result.kind = "raise"
             THEN HandlerOutcome(Raise(n.result.exc), TRUE, <<call>>, n.created)
             ELSE HandlerOutcome(Retry("ZabbixAPIException"), TRUE, <<call>>,
                                 n.created)
    ELSE send_reply(room, template, TRUE, fails)

task_report_zabbix_active_issues(room, caller, retries, zabbix_ok, fails, eager_rerun) ==
    report_handler(room, caller, retries, zabbix_ok, fails, eager_rerun,
                   "report_zabbix_active_issues")

task_report_zabbix_server_status(room, caller, retries, zabbix_ok, fails, eager_rerun) ==
    report_handler(room, caller, retries, zabbix_ok, fails, eager_rerun,
                   "report_zabbix_server_status")

task_say_hello(room, caller, retries, fails) ==
    send_reply(room, "say_hello", FALSE, fails)

run_handler(task, zabbix_ok, fails, eager_rerun) ==
    CASE task.name = "task_say_hello" ->
            task_say_hello(task.args[1], task.args[2], task.retries, fails)
      [] task.name = "task_report_zabbix_active_issues" ->
            task_report_zabbix_active_issues(task.args[1], task.args[2],
                                             task.retries, zabbix_ok, fails, eager_rerun)
      [] task.name = "task_report_zabbix_server_status" ->
            task_report_zabbix_server_status(task.args[1], task.args[2],
                                             task.retries, zabbix_ok, fails, eager_rerun)

HandlerNames ==
    {"task_say_hello", "task_report_zabbix_active_issues",
     "task_report_zabbix_server_status"}

\* One command has been dispatched: its handler is on the queue.
InitHandler ==
    /\ config = Config(DEFAULT_SPARK_TRUSTED_USERS, DEFAULT_SPARK_WEBHOOK_SECRET,
                       FALSE, None)
    /\ queue \in {<<HandlerTask(1, name, <<room, obj_to_dict(Person)>>)>> :
                    name \in HandlerNames, room \in RoomDicts}
    /\ authz = <<>>
    /\ hook = <<>>
    /\ post = <<>>
    /\ chat = <<>>
    /\ dispatch = <<>>
    /\ sent = <<>>
    /\ handler = <<>>
    /\ notify = <<>>
    /\ running = <<>>
    /\ alert = <<>>
    /\ celery \in CeleryBuilds
    /\ delivery = <<>>
    /\ backend = <<>>

\* Worker w is idle and takes a queued handler that is due: the message is
\* off the queue before the task function starts.
HandlerStarts(w) ==
    \E i \in 1..Len(queue) :
        /\ Taken(w) = {}
        /\ queue[i].name \in HandlerNames
        /\ queue[i].countdown = 0
        /\ running' = Append(running, [task |-> queue[i], worker |-> w,
                                       phase |-> "taken"])
        /\ queue' = worker_takes(queue, i)
        /\ UNCHANGED <<config, authz, hook, post, chat, dispatch, sent, handler, notify,
                       alert, celery, delivery, backend>>

\* Attempt k has created its failure notification in Spark and self.retry,
\* the statement after notify_of_failed_command (tasks.py:294-296,
\* 411-413), has not published the retry yet.
RetryToPublish(k) ==
    /\ running[k].phase = "called"
    /\ running[k].out.created # <<>>
    /\ running[k].out.result.kind = "retry"
    /\ retry_requeue(running[k].task) # <<>>
    /\ \A q \in 1..Len(queue) : queue[q].id # running[k].task.id

\* The task function of w's handler runs, Zabbix and the Spark API answer,
\* through its first write: the message it creates is in Spark, or, when it
\* has created none and its last statement is self.retry, the retry is
\* published, with its countdown, while the attempt is still running.
HandlerCalls(w, zabbix_ok, fails) ==
    \E k \in Taken(w) :
        /\ running[k].phase = "taken"
        /\ running[k].task.name \in HandlerNames
        /\ LET out == run_handler(running[k].task, zabbix_ok, fails,
                                  celery.eager_rerun)
           IN  /\ running' = [running EXCEPT ![k] =
                                [task |-> running[k].task, worker |-> w,
                                 phase |-> "called", zabbix_ok |-> zabbix_ok,
                                 fails |-> fails, out |-> out]]
               /\ sent' = sent \o out.created
               /\ queue' = queue \o (IF out.result.kind = "retry" /\ out.created = <<>>
                                     THEN retry_requeue(running[k].task) ELSE <<>>)
        /\ UNCHANGED <<config, authz, hook, post, chat, dispatch, handler, notify,
                       alert, celery, delivery, backend>>

\* The second write of an attempt that has notified the room of a failed
\* Zabbix query: self.retry publishes the retry, with its countdown, while
\* the attempt is still running.  Other workers run between the two writes.
HandlerPublishes(w) ==
    \E k \in Taken(w) :
        /\ RetryToPublish(k)
        /\ queue' = queue \o retry_requeue(running[k].task)
        /\ UNCHANGED <<config, authz, hook, post, chat, dispatch, sent, handler, notify,
                       running, alert, celery, delivery, backend>>

\* The attempt of w's handler ends: the return, the error or the Retry
\* that self.retry raised leaves the task function, and the worker records
\* the execution.
HandlerEnds(w) ==
    \E k \in Taken(w) :
        /\ running[k].phase = "called"
        /\ ~RetryToPublish(k)
        /\ LET task == running[k].task
               out == running[k].out
           IN  /\ handler' = Append(handler,
                                [task |-> task,
                                 zabbix_ok |-> running[k].zabbix_ok,
                                 fails |-> running[k].fails, out |-> out,
                                 countdown |-> IF out.result.kind = "retry"
                                                  /\ retry_requeue(task) # <<>>
                                               THEN <<retry_requeue(task)[1].countdown>>
                                               ELSE <<>>,
                                 state |-> worker_state(task, out.result)])
               /\ running' = SubSeq(running, 1, k - 1)
                                 \o SubSeq(running, k + 1, Len(running))
        /\ UNCHANGED <<config, queue, authz, hook, post, chat, dispatch, sent, notify,
                       alert, celery, delivery, backend>>

\* One worker serves the queue.
NextHandler ==
    \/ HandlerStarts("w1")
    \/ \E zabbix_ok \in BOOLEAN, fails \in 0..(MAX_RETRIES + 1) :
          HandlerCalls("w1", zabbix_ok, fails)
    \/ HandlerPublishes("w1")
    \/ HandlerEnds("w1")
    \/ CountdownElapses

SpecHandler == InitHandler /\ [][NextHandler]_vars

\* Workers keep running and scheduled retries fire: a handler that is on the
\* queue is eventually taken, and a task function that was started comes
\* to its end.
SpecHandlerLive == SpecHandler /\ WF_vars(NextHandler)

(***************************************************************************)
(* One accepted webhook from its dispatch task to the end of its handler:  *)
(* a worker runs task_dispatch_spark_command, retried while the Spark API  *)
(* fails, and then the handler the task has published.                     *)
(***************************************************************************)
\* The message in the group room names one of the three commands.
CommandChats ==
    {[msg |-> Message(Zpark \o <<" ">> \o c, Mention(Zpark) \o <<" ">> \o c),
      room |-> Room("group"), person |-> Person] :
        c \in {Hello, ShowIssues, ShowStatus}}

InitCommand ==
    /\ config = Config(DEFAULT_SPARK_TRUSTED_USERS, DEFAULT_SPARK_WEBHOOK_SECRET,
                       FALSE, None)
    /\ queue = <<Task(1, Envelope(TopKeys, "messages", "created",
                                  Data(DataKeys, <<"j", "@", "z">>)))>>
    /\ chat \in CommandChats
    /\ authz = <<>>
    /\ hook = <<>>
    /\ post = <<>>
    /\ dispatch = <<>>
    /\ sent = <<>>
    /\ handler = <<>>
    /\ notify = <<>>
    /\ running = <<>>
    /\ alert = <<>>
    /\ celery \in CeleryBuilds
    /\ delivery = <<>>
    /\ backend = <<>>

NextCommand ==
    \/ DispatchTaskStarts
    \/ DispatchTaskEnds
    \/ HandlerStarts("w1")
    \/ \E zabbix_ok \in BOOLEAN, fails \in 0..(MAX_RETRIES + 1) :
          HandlerCalls("w1", zabbix_ok, fails)
    \/ HandlerPublishes("w1")
    \/ HandlerEnds("w1")
    \/ CountdownElapses

SpecCommand == InitCommand /\ [][NextCommand]_vars

(***************************************************************************)
(* Two workers and two dispatched commands.  A worker takes a message off  *)
(* the queue when it starts an attempt (Celery acknowledges a message      *)
(* before running it: task_acks_late is not set), the task function runs   *)
(* through its last statement, which is the return, the raise or the       *)
(* self.retry that publishes the next attempt, and the attempt ends.       *)
(* handler holds the attempts in the order they ended.                     *)
(***************************************************************************)
Workers == {"w1", "w2"}

\* What the backends answer to the attempts of one command, the first
\* attempt first: <<zabbix_ok, fails>> for each of the MAX_RETRIES + 1
\* attempts the command can make.  In turn: all is well; Zabbix fails
\* once; the chat API fails, then Zabbix; both fail, then the chat API;
\* Zabbix fails and messages.create keeps failing; Zabbix fails, then
\* both, to the last attempt; the chat API fails to the last attempt; the
\* chat API fails until the last attempt.
BackendSchedules ==
    {<<<<TRUE, 0>>, <<TRUE, 0>>, <<TRUE, 0>>, <<TRUE, 0>>>>,
     <<<<FALSE, 0>>, <<TRUE, 0>>, <<TRUE, 0>>, <<TRUE, 0>>>>,
     <<<<TRUE, 1>>, <<FALSE, 0>>, <<TRUE, 0>>, <<TRUE, 0>>>>,
     <<<<FALSE, 1>>, <<TRUE, 2>>, <<TRUE, 0>>, <<TRUE, 0>>>>,
     <<<<FALSE, MAX_RETRIES + 1>>, <<TRUE, 0>>, <<TRUE, 0>>, <<TRUE, 0>>>>,
     <<<<FALSE, 0>>, <<FALSE, 1>>, <<FALSE, 2>>, <<TRUE, 1>>>>,
     <<<<TRUE, 1>>, <<TRUE, 2>>, <<TRUE, 1>>, <<TRUE, MAX_RETRIES + 1>>>>,
     <<<<TRUE, 1>>, <<TRUE, 1>>, <<TRUE, 1>>, <<TRUE, 0>>>>}

\* The two commands that were dispatched, the first from a group room and
\* the second from a direct room: any two of the three handlers.
CommandPairs ==
    {"task_say_hello", "task_report_zabbix_active_issues",
     "task_report_zabbix_server_status"}
    \X {"task_say_hello", "task_report_zabbix_active_issues",
        "task_report_zabbix_server_status"}

DispatchedCommands(p) ==
    <<HandlerTask(1, p[1], <<[obj_to_dict(Room("group")) EXCEPT !.id = "roomid1"],
                             obj_to_dict(Person)>>),
      HandlerTask(2, p[2], <<[obj_to_dict(Room("direct")) EXCEPT !.id = "roomid2"],
                             obj_to_dict(Person)>>)>>

InitWorkers ==
    /\ config = Config(DEFAULT_SPARK_TRUSTED_USERS, DEFAULT_SPARK_WEBHOOK_SECRET,
                       FALSE, None)
    /\ queue \in {DispatchedCommands(p) : p \in CommandPairs}
    /\ authz = <<>>
    /\ hook = <<>>
    /\ post = <<>>
    /\ chat = <<>>
    /\ dispatch = <<>>
    /\ sent = <<>>
    /\ handler = <<>>
    /\ notify = <<>>
    /\ running = <<>>
    /\ alert = <<>>
    /\ celery \in CeleryBuilds
    /\ delivery = <<>>
    /\ backend \in [{1, 2} -> BackendSchedules]

\* The backends answer the attempt as backend says for its command and
\* its number.
WorkerCalls ==
    \E w \in Workers, k \in 1..Len(running) :
        LET in == backend[running[k].task.id][running[k].task.retries + 1]
        IN  running[k].worker = w /\ HandlerCalls(w, in[1], in[2])

NextWorkers ==
    \/ \E w \in Workers : HandlerStarts(w)
    \/ WorkerCalls
    \/ \E w \in Workers : HandlerPublishes(w)
    \/ \E w \in Workers : HandlerEnds(w)
    \/ CountdownElapses

SpecWorkers == InitWorkers /\ [][NextWorkers]_vars

(***************************************************************************)
(* requires_api_token (api_common.py) and the ping endpoint it guards      *)
(* (v1.py).  abort(status) raises the HTTP error of that status.  The      *)
(* token and the Token header are strs over a small alphabet.              *)
(***************************************************************************)
MaxTokenLen == 2

Abort(status) == [kind |-> "abort", status |-> status]

TokenOutcome(result, ran) == [result |-> result, ran |-> ran]

\* ping(api_version): utctime is left out, it is not compared.
ping(api_version) == [hello |-> "Hello!", apiversion |-> api_version]

API_VERSION == 1

\* Ping.get, the function the decorator wraps.
ping_get == Return(ping(API_VERSION))

\* Variant of requires_api_token: the header is looked at first.
requires_api_token_header_first(func, req_token, cfg) ==
    IF req_token = None THEN TokenOutcome(Abort(401), FALSE)
    ELSE IF cfg["ZPARK_API_TOKEN"] = None THEN TokenOutcome(Abort(500), FALSE)
    ELSE IF req_token = cfg["ZPARK_API_TOKEN"] THEN TokenOutcome(func, TRUE)
    ELSE TokenOutcome(Abort(401), FALSE)

\* decorated(): func stands for func(*args, **kwargs).
requires_api_token(func, req_token, cfg) ==
    LET our_token == cfg["ZPARK_API_TOKEN"]
    IN  IF our_token = None THEN TokenOutcome(Abort(500), FALSE)
        ELSE IF req_token = None THEN TokenOutcome(Abort(401), FALSE)
        ELSE IF req_token = our_token THEN TokenOutcome(func, TRUE)
        ELSE TokenOutcome(Abort(401), FALSE)

\* Alert.post, the function the decorator wraps: the parser wants 'to' and
\* 'subject' in the JSON body, 'message' may be missing or null.
alert_post(json, broker_up, task_id) ==
    IF ~({"to", "subject"} \subseteq DOMAIN json)
    THEN AlertOutcome(Abort(400), <<>>)
    ELSE send_spark_alert_message(json["to"], json["subject"],
                                  IF "message" \in DOMAIN json
                                  THEN json["message"] ELSE None,
                                  broker_up, task_id)

AlertBodies ==
    {[to |-> a[1], subject |-> a[2], message |-> a[3]] : a \in AlertInputs}
    \cup {[to |-> a[1], subject |-> a[2]] : a \in AlertInputs}
    \cup {[to |-> a[1]] : a \in AlertInputs}
    \cup {[subject |-> a[2], message |-> <<"b", "o", "d", "y">>] : a \in AlertInputs}

(***************************************************************************)
(* Alerts: send_spark_alert_message called on its own, Alert.post, and     *)
(* task_send_spark_message run by a worker (tasks.py), the task that       *)
(* send_spark_alert_message publishes.  The worker takes the message off   *)
(* the queue, the task function calls spark_api.messages.create once, and  *)
(* a SparkApiError ends it in self.retry, which puts the task back on the  *)
(* queue until it has been retried MAX_RETRIES times.                      *)
(***************************************************************************)
MaxAlerts == 1   \* alert messages held in Spark before no further delivery is explored

\* ZPARK_API_TOKEN is None by default and a str once app.cfg sets it.
InitAlert ==
    /\ config \in {[ZPARK_API_TOKEN |-> t] : t \in {None, <<"a">>}}
    /\ queue = <<>>
    /\ authz = <<>>
    /\ hook = <<>>
    /\ post = <<>>
    /\ chat = <<>>
    /\ dispatch = <<>>
    /\ sent = <<>>
    /\ handler = <<>>
    /\ notify = <<>>
    /\ running = <<>>
    /\ alert = <<>>
    /\ celery \in CeleryBuilds
    /\ delivery = <<>>
    /\ backend = <<>>

\* One call of send_spark_alert_message, made when the caller has read the
\* result of the call before.  A run in which the broker accepts the task
\* is explored only while the queue is below MaxQueue.
SendSparkAlertMessageCall ==
    /\ alert = <<>>
    /\ \E a \in AlertInputs, broker_up \in BOOLEAN,
          task_id \in TaskIds \ (QueuedIds \cup {running[k].task.id : k \in 1..Len(running)}) :
          /\ broker_up => Len(queue) < MaxQueue
          /\ LET out == send_spark_alert_message(a[1], a[2], a[3],
                                                 broker_up, task_id)
             IN  /\ alert' = <<[sendto |-> a[1], subject |-> a[2],
                                message |-> a[3], broker_up |-> broker_up,
                                task_id |-> task_id, out |-> out]>>
                 /\ queue' = queue \o out.submitted
    /\ UNCHANGED <<config, authz, hook, post, chat, dispatch, sent, handler, notify,
                   running, celery, delivery, backend>>

\* One POST to /alert, with or without a Token header.
AlertPost ==
    /\ alert = <<>>
    /\ \E req_token \in {None, <<"a">>, <<"b">>}, json \in AlertBodies,
          broker_up \in BOOLEAN,
          task_id \in TaskIds \ (QueuedIds \cup {running[k].task.id : k \in 1..Len(running)}) :
          /\ broker_up => Len(queue) < MaxQueue
          /\ LET a == alert_post(json, broker_up, task_id)
                 out == requires_api_token(a.result, req_token, config)
             IN  /\ alert' = <<[token |-> req_token, json |-> json,
                                broker_up |-> broker_up, task_id |-> task_id,
                                out |-> out]>>
                 /\ queue' = queue \o (IF out.ran THEN a.submitted ELSE <<>>)
    /\ UNCHANGED <<config, authz, hook, post, chat, dispatch, sent, handler, notify,
                   running, celery, delivery, backend>>

\* The caller has the result, or the response has been sent; the next
\* call or request can be served.
AlertDone ==
    /\ alert # <<>>
    /\ alert' = <<>>
    /\ UNCHANGED <<config, queue, authz, hook, post, chat, dispatch, sent, handler,
                   notify, running, celery, delivery, backend>>

\* Lines 228-248 under a worker: self.retry(exc=e) asks for the retry.
task_send_spark_message_run(to, text, md, fails) ==
    LET s == task_send_spark_message(to, text, md, fails)
    IN  IF s.result.kind = "raise"
        THEN SendOutcome(Retry(s.result.exc), s.creates, s.created)
        ELSE s

\* A worker takes a queued task_send_spark_message: the message is off the
\* queue before the task function starts.
SendMessageTaskStarts ==
    \E i \in 1..Len(queue) :
        /\ running = <<>>
        /\ Len(sent) < MaxAlerts
        /\ queue[i].name = "task_send_spark_message"
        /\ queue[i].countdown = 0
        /\ running' = <<[task |-> queue[i], worker |-> "w1", phase |-> "taken"]>>
        /\ queue' = worker_takes(queue, i)
        /\ UNCHANGED <<config, authz, hook, post, chat, dispatch, sent, handler, notify,
                       alert, celery, delivery, backend>>

\* The task function runs to its end: the message is created in Spark, or
\* messages.create fails and self.retry puts the task back on the queue.
\* delivery keeps what the worker records for the execution.
SendMessageTaskEnds ==
    /\ running # <<>>
    /\ running[1].task.name = "task_send_spark_message"
    /\ \E fails \in {0, 1} :
          LET task == running[1].task
              out == task_send_spark_message_run(task.args[1], task.args[2], None,
                                                 fails)
          IN  /\ delivery' = <<[id |-> task.id, retries |-> task.retries,
                                 result |-> out.result,
                                 countdown |-> IF out.result.kind = "retry"
                                                  /\ retry_requeue(task) # <<>>
                                               THEN <<retry_requeue(task)[1].countdown>>
                                               ELSE <<>>,
                                 state |-> worker_state(task, out.result)]>>
              /\ sent' = sent \o out.created
              /\ queue' = queue \o (IF out.result.kind = "retry"
                                     THEN retry_requeue(task) ELSE <<>>)
              /\ running' = <<>>
    /\ UNCHANGED <<config, authz, hook, post, chat, dispatch, handler, notify, alert,
                   celery, backend>>

NextAlert ==
    \/ SendSparkAlertMessageCall
    \/ AlertPost
    \/ AlertDone
    \/ SendMessageTaskStarts
    \/ SendMessageTaskEnds
    \/ CountdownElapses

SpecAlert == InitAlert /\ [][NextAlert]_vars

RECURSIVE StrsUpTo(_, _)
StrsUpTo(chars, n) ==
    IF n = 0 THEN {<<>>}
    ELSE LET shorter == StrsUpTo(chars, n - 1)
         IN  shorter \cup {Append(s, c) : s \in shorter, c \in chars}

Tokens == StrsUpTo({"a", "b", "c"}, MaxTokenLen)

\* ZPARK_API_TOKEN is None by default and a str once app.cfg sets it.
InitToken ==
    /\ config \in {[ZPARK_API_TOKEN |-> t] : t \in {None} \cup Tokens}
    /\ queue = <<>>
    /\ authz = <<>>
    /\ hook = <<>>
    /\ post = <<>>
    /\ chat = <<>>
    /\ dispatch = <<>>
    /\ sent = <<>>
    /\ handler = <<>>
    /\ notify = <<>>
    /\ running = <<>>
    /\ alert = <<>>
    /\ celery \in CeleryBuilds
    /\ delivery = <<>>
    /\ backend = <<>>

\* One GET of /ping, with or without a Token header.
PingGet ==
    /\ post = <<>>
    /\ \E req_token \in {None} \cup Tokens :
          post' = <<[endpoint |-> "ping", token |-> req_token,
                     out |-> requires_api_token(ping_get, req_token, config)]>>
    /\ UNCHANGED <<config, queue, authz, hook, chat, dispatch, sent, handler, notify,
                   running, alert, celery, delivery, backend>>

\* The response has been sent; the next request can be served.
PingGetDone ==
    /\ post # <<>>
    /\ post' = <<>>
    /\ UNCHANGED <<config, queue, authz, hook, chat, dispatch, sent, handler, notify,
                   running, alert, celery, delivery, backend>>

NextToken ==
    \/ PingGet
    \/ PingGetDone

SpecToken == InitToken /\ [][NextToken]_vars

(***************************************************************************)
(* Vocabulary of the claims, stated apart from the code's definitions.     *)
(***************************************************************************)
HasAt(email) == \E i \in 1..Len(email) : email[i] = "@"

\* '@' plus everything after the last '@' (no element when there is no '@').
DomainSuffixes(email) ==
    {<<"@">> \o SubSeq(email, i + 1, Len(email)) :
        i \in {k \in 1..Len(email) :
                  /\ email[k] = "@"
                  /\ \A j \in (k + 1)..Len(email) : email[j] # "@"}}

InTrustList(email, trust) ==
    email \in trust \/ DomainSuffixes(email) \cap trust # {}

IsMessagesCreated(data) ==
    /\ "resource" \in DOMAIN data
    /\ "event" \in DOMAIN data
    /\ data["resource"] = "messages"
    /\ data["event"] = "created"

IsWellFormed(data) ==
    /\ DOMAIN data = TopKeys
    /\ DOMAIN data["data"] = DataKeys

MissesRequiredField(data) ==
    \/ {"id", "name", "resource", "event", "actorId"} \ DOMAIN data # {}
    \/ ~HasPersonEmail(data)

ReturnedError(out, status) ==
    /\ out.result.kind = "return"
    /\ DOMAIN out.result.value[1] = {"error"}
    /\ out.result.value[2] = status

ReturnedTaskId(out, task_id) ==
    /\ out.result.kind = "return"
    /\ DOMAIN out.result.value[1] = {"taskid"}
    /\ out.result.value[1]["taskid"] = task_id
    /\ out.result.value[2] = 200

NothingSubmitted(out) == out.attempts = 0 /\ out.submitted = <<>>

\* The request gets as far as the signature check of Webhook.post: its
\* Content-Length is a number that is 0 or within the configured limit, and
\* its body is a JSON object.
ReachesAuthentication(request, cfg) ==
    /\ request.content_length # None
    /\ request.content_length # <<>>
    /\ \A i \in 1..Len(request.content_length) : request.content_length[i] \in Digits
    /\ \/ DecimalValue(request.content_length) = 0
       \/ /\ cfg["MAX_CONTENT_LENGTH"] # None
          /\ DecimalValue(request.content_length) <= cfg["MAX_CONTENT_LENGTH"][2]
    /\ request.body # <<>>

SecretIsSet(cfg) ==
    /\ "SPARK_WEBHOOK_SECRET" \in DOMAIN cfg
    /\ cfg["SPARK_WEBHOOK_SECRET"] # None

(***************************************************************************)
(* Claims about authorize_webhook and handle_spark_webhook.                *)
(***************************************************************************)

\* C1: an envelope whose resource is not "messages" or whose event is not
\* "created" (a missing resource or event included) is answered with an
\* error body and status 400, authorize_webhook is not called for it and no
\* task_dispatch_spark_command is submitted.
C1_UnsupportedRejectedBeforeAuthz ==
    \A i \in 1..Len(hook) :
        ~IsMessagesCreated(hook[i].data) =>
            /\ ReturnedError(hook[i].out, 400)
            /\ hook[i].out.authz = <<>>
            /\ NothingSubmitted(hook[i].out)

C1_Witness ==
    /\ hook # <<>>
    /\ IsWellFormed(hook[1].data)
    /\ hook[1].data["resource"] = "messages"
    /\ hook[1].data["event"] = "deleted"
    /\ config["SPARK_TRUSTED_USERS"] = {}
    /\ hook[1].broker_up
    /\ ReturnedError(hook[1].out, 400)

\* C2 as claimed: under a non-empty trust list authorize_webhook returns,
\* for every personEmail, True exactly when the address or its domain
\* suffix ('@' and what follows the last '@') is in the list and False
\* otherwise; under the empty trust list it returns True for every
\* personEmail.
C2_Claimed ==
    \A i \in 1..Len(authz) :
        LET d == authz[i].webhook_data
            trust == config["SPARK_TRUSTED_USERS"]
        IN  HasPersonEmail(d) =>
              LET email == d["data"]["personEmail"]
              IN  /\ authz[i].result.kind = "return"
                  /\ trust = {} => authz[i].result.value = TRUE
                  /\ trust # {} =>
                        authz[i].result.value = InTrustList(email, trust)

\* C3 as claimed: a messages/created envelope whose sender is not in the
\* non-empty trust list, by address or by domain, is answered with an error
\* body and status 200 and nothing is submitted; under the default trust
\* list [None] that is every sender.
C3_Claimed ==
    \A i \in 1..Len(hook) :
        LET d == hook[i].data
            trust == config["SPARK_TRUSTED_USERS"]
        IN  (IsMessagesCreated(d) /\ HasPersonEmail(d)) =>
              LET email == d["data"]["personEmail"]
              IN  (trust = {None} \/ (trust # {} /\ ~InTrustList(email, trust))) =>
                      /\ ReturnedError(hook[i].out, 200)
                      /\ NothingSubmitted(hook[i].out)

\* C4 (as claimed): an envelope that lacks id, name, resource, event, actorId
\* or data.personEmail is answered with an error body and status 400 and no
\* task is submitted for it.
C4_Claimed ==
    \A i \in 1..Len(hook) :
        MissesRequiredField(hook[i].data) =>
            /\ ReturnedError(hook[i].out, 400)
            /\ NothingSubmitted(hook[i].out)

\* C5: when personEmail (or the data object that holds it) is absent, the
\* authorize_webhook call made by handle_spark_webhook raises KeyError, it
\* does not return False, and the caller answers 400; a returned False is
\* answered 200.
C5_MissingPersonEmailRaisesKeyError ==
    \A i \in 1..Len(hook) :
        \A k \in 1..Len(hook[i].out.authz) :
            LET a == hook[i].out.authz[k]
            IN  /\ ~HasPersonEmail(hook[i].data) =>
                      /\ a.kind = "raise"
                      /\ a.exc = "KeyError"
                      /\ ReturnedError(hook[i].out, 400)
                /\ (a.kind = "return" /\ a.value = FALSE) =>
                      ReturnedError(hook[i].out, 200)

C5_Witness ==
    /\ hook # <<>>
    /\ IsMessagesCreated(hook[1].data)
    /\ "data" \in DOMAIN hook[1].data
    /\ "personEmail" \notin DOMAIN hook[1].data["data"]
    /\ config["SPARK_TRUSTED_USERS"] = {None}
    /\ hook[1].out.authz = <<[kind |-> "raise", exc |-> "KeyError"]>>
    /\ ReturnedError(hook[1].out, 400)

\* C8: when the submission of task_dispatch_spark_command fails, the call
\* returns an error body with status 500, apply_async was called exactly
\* once and the call has put no task on the queue.
C8_SubmissionFailureIs500 ==
    \A i \in 1..Len(hook) :
        (hook[i].out.attempts > 0 /\ ~hook[i].broker_up) =>
            /\ ReturnedError(hook[i].out, 500)
            /\ hook[i].out.attempts = 1
            /\ hook[i].out.submitted = <<>>
            /\ \A q \in 1..Len(queue) : queue[q].id # hook[i].task_id

C8_Witness ==
    /\ hook # <<>>
    /\ IsWellFormed(hook[1].data)
    /\ ~hook[1].broker_up
    /\ hook[1].out.attempts = 1
    /\ ReturnedError(hook[1].out, 500)
    /\ queue = <<>>

\* C9: a well-formed messages/created envelope from an authorized sender,
\* with the broker accepting the task, is submitted exactly once as
\* task_dispatch_spark_command with the envelope itself as its argument, and
\* the call returns ({taskid: the new task's id}, 200).
C9_AcceptedSubmittedOnce ==
    \A i \in 1..Len(hook) :
        LET d == hook[i].data
            trust == config["SPARK_TRUSTED_USERS"]
        IN  (/\ IsWellFormed(d)
             /\ IsMessagesCreated(d)
             /\ hook[i].broker_up
             /\ \/ trust = {}
                \/ /\ HasAt(d["data"]["personEmail"])
                   /\ InTrustList(d["data"]["personEmail"], trust)) =>
                /\ ReturnedTaskId(hook[i].out, hook[i].task_id)
                /\ hook[i].out.attempts = 1
                /\ hook[i].out.submitted =
                      <<[id |-> hook[i].task_id,
                         name |-> "task_dispatch_spark_command",
                         args |-> <<d>>, retries |-> 0, countdown |-> 0]>>

C9_Witness ==
    /\ hook # <<>>
    /\ IsWellFormed(hook[1].data)
    /\ hook[1].data["data"]["personEmail"] = <<"z", "@", "z">>
    /\ config["SPARK_TRUSTED_USERS"] = {None, <<"@", "z">>}
    /\ ReturnedTaskId(hook[1].out, hook[1].task_id)
    /\ Len(queue) = 1
    /\ queue[1].id = hook[1].task_id
    /\ queue[1].args = <<hook[1].data>>

(***************************************************************************)
(* Claims about Webhook.post.                                              *)
(***************************************************************************)

\* The request has no X-Spark-Signature, or one that is not the HMAC-SHA1
\* digest of its body under the configured secret.
BadSignature(r, cfg) ==
    \/ r.signature = None
    \/ r.signature # <<"hmac-sha1", cfg["SPARK_WEBHOOK_SECRET"], r.body>>

\* C6 as claimed: with a webhook secret set, a request whose signature is
\* missing or wrong never reaches handle_spark_webhook and is answered with
\* status 403.
C6_Claimed ==
    \A i \in 1..Len(post) :
        (SecretIsSet(config) /\ BadSignature(post[i].request, config)) =>
            /\ post[i].out.handle = <<>>
            /\ ReturnedError(post[i].out, 403)

\* What the Content-Length check and the parsing of the body, which come
\* before the signature check, end a request with.
EndedBeforeSignatureCheck ==
    {Return(<<[error |-> "Bad request"], 400>>),
     Return(<<[error |-> "Too big"], 413>>),
     Raise("TypeError"), Raise("BadRequest")}

\* C6: with a webhook secret set, a request whose signature is missing or
\* wrong never reaches handle_spark_webhook (neither authorization nor a
\* task submission happens for it).  It is answered with status 403 exactly
\* when it gets as far as the signature check; otherwise the Content-Length
\* check or the parsing of the body has ended it: with 400, with 413, with
\* the TypeError of a missing Content-Length or of an unset
\* MAX_CONTENT_LENGTH, or with the BadRequest of a body that is not JSON.
C6_BadSignatureNeverHandled ==
    \A i \in 1..Len(post) :
        LET r == post[i].request
        IN  (SecretIsSet(config) /\ BadSignature(r, config)) =>
                /\ post[i].out.handle = <<>>
                /\ ReachesAuthentication(r, config) <=>
                      post[i].out.result = Unauthorized
                /\ ~ReachesAuthentication(r, config) =>
                      post[i].out.result \in EndedBeforeSignatureCheck

C6_Witness ==
    /\ post # <<>>
    /\ SecretIsSet(config)
    /\ config["SPARK_TRUSTED_USERS"] = {}
    /\ post[1].request.body # <<>>
    /\ IsWellFormed(post[1].request.body[1])
    /\ IsMessagesCreated(post[1].request.body[1])
    /\ post[1].request.signature = <<"hmac-sha1", Secret2, post[1].request.body>>
    /\ ReachesAuthentication(post[1].request, config)
    /\ post[1].broker_up
    /\ post[1].out.result.kind = "return"
    /\ post[1].out.result.value[2] = 403
    /\ queue = <<>>

\* C7 (as claimed): with SPARK_WEBHOOK_SECRET left at its default None (or
\* not configured at all), every request that gets as far as the signature
\* check is passed on to handle_spark_webhook, whatever its signature
\* header is.
C7_Claimed ==
    \A i \in 1..Len(post) :
        (/\ ~SecretIsSet(config)
         /\ ReachesAuthentication(post[i].request, config)) =>
            post[i].out.handle # <<>>

(***************************************************************************)
(* Claims about task_dispatch_spark_command.                               *)
(***************************************************************************)
BotMentioned(msg, name) == mention_match(msg.html) = <<name>>

DelimitedShowIssues ==
    {<<"Z", "p", "a", "r", "k">> \o d
        \o <<"s", "h", "o", "w", " ", "i", "s", "s", "u", "e", "s">> :
        d \in {<<>>, <<" ">>, <<",">>, <<",", " ">>, <<";">>, <<";", " ">>,
               <<":">>, <<":", " ">>}}

\* C10: in a group room where the bot is mentioned as "Zpark", for each of
\* the delimiters "", " ", ",", ", ", ";", "; ", ":", ": " the command
\* extracted from the text "Zpark<delim>show issues" is "show issues", and
\* when the caller's profile is fetched and the broker accepts the handler
\* the task returns True having submitted the "show issues" handler once.
C10_DelimitersYieldShowIssues ==
    \A i \in 1..Len(dispatch) :
        LET r == dispatch[i]
        IN  (/\ HasDispatchKeys(r.task.args[1])
             /\ r.api.msg
             /\ r.api.room
             /\ chat.room.type = "group"
             /\ BotMentioned(chat.msg, <<"Z", "p", "a", "r", "k">>)
             /\ chat.msg.text \in DelimitedShowIssues) =>
                /\ r.out.cmd = <<<<"s", "h", "o", "w", " ", "i", "s", "s", "u", "e", "s">>>>
                /\ (r.api.person /\ r.broker_up) =>
                      /\ r.out.result = Return(TRUE)
                      /\ Len(r.out.submitted) = 1
                      /\ r.out.submitted[1].name = "task_report_zabbix_active_issues"

C10_Witness ==
    /\ dispatch # <<>>
    /\ chat.room.type = "group"
    /\ chat.msg.text = <<"Z", "p", "a", "r", "k", ";", " ">>
                          \o <<"s", "h", "o", "w", " ", "i", "s", "s", "u", "e", "s">>
    /\ BotMentioned(chat.msg, <<"Z", "p", "a", "r", "k">>)
    /\ dispatch[1].out.cmd = <<ShowIssues>>
    /\ dispatch[1].out.result = Return(TRUE)
    /\ Len(queue) = 1
    /\ queue[1].name = "task_report_zabbix_active_issues"

InParagraph(html) == StartsWith(html, <<"<", "p", ">">> \o MentionOpen)

AllApiCallsSucceed(r) == r.api.msg /\ r.api.room /\ r.api.person

\* C11 (as claimed): in a group room, a message whose markup holds the
\* mention span inside paragraph markup and whose text is the bot name
\* ("Zpark" or "Zpark Bot") followed by "show issues" has the bot name
\* stripped, and when the API calls succeed and the broker accepts the
\* handler the task returns True having submitted the handler once with
\* (room, caller).
C11_Claimed ==
    \A i \in 1..Len(dispatch) :
        LET r == dispatch[i]
        IN  (/\ HasDispatchKeys(r.task.args[1])
             /\ AllApiCallsSucceed(r)
             /\ r.broker_up
             /\ chat.room.type = "group"
             /\ InParagraph(chat.msg.html)
             /\ chat.msg.text \in
                  {<<"Z", "p", "a", "r", "k", " ">> \o ShowIssues,
                   <<"Z", "p", "a", "r", "k", " ", "B", "o", "t", " ">> \o ShowIssues}) =>
                /\ r.out.cmd = <<ShowIssues>>
                /\ r.out.result = Return(TRUE)
                /\ Len(r.out.submitted) = 1
                /\ r.out.submitted[1].name = "task_report_zabbix_active_issues"
                /\ r.out.submitted[1].args =
                      <<obj_to_dict(chat.room), obj_to_dict(chat.person)>>

\* str.strip() of the texts drawn here: leading and trailing spaces removed.
Trimmed(text) ==
    LET inner == {i \in 1..Len(text) : text[i] # " "}
    IN  IF inner = {} THEN <<>>
        ELSE SubSeq(text, CHOOSE i \in inner : \A j \in inner : i <= j,
                          CHOOSE i \in inner : \A j \in inner : j <= i)

KnownCommands == {Hello, ShowIssues, ShowStatus}

\* C12 (as claimed): in a direct room nothing is stripped from the front of
\* the text as a mention, and the command looked up is the text with the
\* surrounding whitespace trimmed: a known command with or without leading
\* or trailing whitespace has its handler submitted and the task returns
\* True (API calls succeeding, broker accepting).
C12_Claimed ==
    \A i \in 1..Len(dispatch) :
        LET r == dispatch[i]
        IN  (/\ HasDispatchKeys(r.task.args[1])
             /\ AllApiCallsSucceed(r)
             /\ r.broker_up
             /\ chat.room.type = "direct"
             /\ Trimmed(chat.msg.text) \in KnownCommands) =>
                /\ r.out.result = Return(TRUE)
                /\ Len(r.out.submitted) = 1
                /\ r.out.submitted[1].name = dispatch_map_get(Trimmed(chat.msg.text))[1]

\* C13: in a group room, when the markup does not start with the mention
\* span, the task returns False (it does not raise and asks for no retry),
\* looks up no caller, submits no handler, and no message is created in
\* Spark.
C13_NoMentionIsNoCommand ==
    \A i \in 1..Len(dispatch) :
        LET r == dispatch[i]
        IN  (/\ HasDispatchKeys(r.task.args[1])
             /\ r.api.msg
             /\ r.api.room
             /\ chat.room.type = "group"
             /\ ~StartsWith(chat.msg.html, MentionOpen)) =>
                /\ r.out.result = Return(FALSE)
                /\ r.state = "SUCCESS"
                /\ r.out.submitted = <<>>
                /\ r.out.calls = <<"messages.get", "rooms.get">>
                /\ queue = <<>>
                /\ sent = <<>>

C13_Witness ==
    /\ dispatch # <<>>
    /\ chat.room.type = "group"
    /\ chat.msg.html = ShowIssues
    /\ chat.msg.text = ShowIssues
    /\ dispatch[1].api.msg /\ dispatch[1].api.room /\ dispatch[1].api.person
    /\ dispatch[1].broker_up
    /\ dispatch[1].out.result = Return(FALSE)
    /\ queue = <<>>
    /\ sent = <<>>

CommandChars ==
    {"a", "b", "c", "d", "e", "f", "g", "h", "i", "j", "k", "l", "m", "n", "o",
     "p", "q", "r", "s", "t", "u", "v", "w", "x", "y", "z",
     "A", "B", "C", "D", "E", "F", "G", "H", "I", "J", "K", "L", "M", "N", "O",
     "P", "Q", "R", "S", "T", "U", "V", "W", "X", "Y", "Z",
     "0", "1", "2", "3", "4", "5", "6", "7", "8", "9", " "}

Acceptable(cmd) ==
    /\ Len(cmd) >= 1
    /\ Len(cmd) <= 79
    /\ \A i \in 1..Len(cmd) : cmd[i] \in CommandChars

\* C14: a command text obtained from a message goes on to the lookup of the
\* caller exactly when it has 1 to 79 characters, all of them ASCII letters,
\* digits or spaces; otherwise the task returns False without looking up
\* the caller, submitting a handler, asking for a retry or creating a
\* message.
C14_OnlySaneCommandsAccepted ==
    \A i \in 1..Len(dispatch) :
        LET r == dispatch[i]
        IN  (/\ HasDispatchKeys(r.task.args[1])
             /\ r.api.msg
             /\ r.api.room
             /\ r.out.cmd # <<>>) =>
                /\ chat.room.type = "direct" => r.out.cmd[1] = chat.msg.text
                /\ Acceptable(r.out.cmd[1]) =>
                      r.out.calls = <<"messages.get", "rooms.get", "people.get">>
                /\ ~Acceptable(r.out.cmd[1]) =>
                      /\ r.out.result = Return(FALSE)
                      /\ r.state = "SUCCESS"
                      /\ r.out.calls = <<"messages.get", "rooms.get">>
                      /\ r.out.submitted = <<>>
                      /\ queue = <<>>
                      /\ sent = <<>>

C14_Witness ==
    /\ dispatch # <<>>
    /\ chat.room.type = "direct"
    /\ Len(chat.msg.text) = 80
    /\ \A i \in 1..Len(chat.msg.text) : chat.msg.text[i] \in CommandChars
    /\ dispatch[1].api.msg /\ dispatch[1].api.room /\ dispatch[1].api.person
    /\ dispatch[1].broker_up
    /\ dispatch[1].out.cmd = <<chat.msg.text>>
    /\ dispatch[1].out.result = Return(FALSE)
    /\ dispatch[1].out.calls = <<"messages.get", "rooms.get">>

\* The message carries the 104-character command 'show' + ' run' * 25.
CarriesLongCommand ==
    \/ /\ chat.room.type = "direct"
       /\ chat.msg.text = LongCommand
    \/ /\ chat.room.type = "group"
       /\ StartsWith(chat.msg.html, MentionOpen)
       /\ chat.msg.text = <<"Z", "p", "a", "r", "k", " ">> \o LongCommand

\* C15 (as claimed): the 104-character command is rejected before dispatch
\* and no backend call of any kind is made while its webhook is processed.
C15_Claimed ==
    \A i \in 1..Len(dispatch) :
        (HasDispatchKeys(dispatch[i].task.args[1]) /\ CarriesLongCommand) =>
            /\ dispatch[i].out.submitted = <<>>
            /\ dispatch[i].out.calls = <<>>

\* C15 (amended): the 104-character command is rejected before dispatch:
\* once messages.get and rooms.get have returned the message and its room,
\* the task returns False without any further backend call (no people.get,
\* no handler and so no Zabbix query, no message created).
C15_LongCommandRejectedAfterFetch ==
    \A i \in 1..Len(dispatch) :
        LET r == dispatch[i]
        IN  (/\ HasDispatchKeys(r.task.args[1])
             /\ r.api.msg
             /\ r.api.room
             /\ CarriesLongCommand) =>
                /\ r.out.result = Return(FALSE)
                /\ r.out.calls = <<"messages.get", "rooms.get">>
                /\ r.out.submitted = <<>>
                /\ queue = <<>>
                /\ sent = <<>>

C15_Witness ==
    /\ dispatch # <<>>
    /\ chat.room.type = "group"
    /\ CarriesLongCommand
    /\ Len(chat.msg.text) = 110
    /\ dispatch[1].api.msg /\ dispatch[1].api.room /\ dispatch[1].api.person
    /\ dispatch[1].broker_up
    /\ dispatch[1].out.result = Return(FALSE)
    /\ dispatch[1].out.calls = <<"messages.get", "rooms.get">>
    /\ queue = <<>>

\* C16: a command that passes validation and, lower-cased, is not "hello",
\* "show issues" or "show status" is an unknown command: with the message,
\* room and caller fetched, the task returns False, submits no handler and
\* no message is created in the room.
C16_UnknownCommandDropped ==
    \A i \in 1..Len(dispatch) :
        LET r == dispatch[i]
        IN  (/\ HasDispatchKeys(r.task.args[1])
             /\ AllApiCallsSucceed(r)
             /\ r.out.cmd # <<>>
             /\ Acceptable(r.out.cmd[1])
             /\ lower(r.out.cmd[1]) \notin KnownCommands) =>
                /\ r.out.result = Return(FALSE)
                /\ r.state = "SUCCESS"
                /\ r.out.submitted = <<>>
                /\ queue = <<>>
                /\ sent = <<>>

C16_Witness ==
    /\ dispatch # <<>>
    /\ chat.room.type = "group"
    /\ chat.msg.text = <<"Z", "p", "a", "r", "k", " ">> \o Sandwich
    /\ AllApiCallsSucceed(dispatch[1])
    /\ dispatch[1].broker_up
    /\ dispatch[1].out.cmd = <<Sandwich>>
    /\ dispatch[1].out.calls = <<"messages.get", "rooms.get", "people.get">>
    /\ dispatch[1].out.result = Return(FALSE)
    /\ queue = <<>>

SameLetter(a, b) ==
    \/ a = b
    \/ \E n \in 1..26 : {a, b} = {LowerLetters[n], UpperLetters[n]}

SameIgnoringCase(s, k) ==
    /\ Len(s) = Len(k)
    /\ \A i \in 1..Len(s) : SameLetter(s[i], k[i])

\* C17: the lookup is case-insensitive and exact.  A valid command that
\* equals a table key up to letter case has the handler of that key
\* submitted, the same one whatever the case of its letters; a valid command
\* that equals no key up to letter case, a proper prefix or an extension of a
\* key included, selects no handler.
C17_LookupIgnoresCaseNotPrefix ==
    \A i \in 1..Len(dispatch) :
        LET r == dispatch[i]
        IN  (/\ HasDispatchKeys(r.task.args[1])
             /\ AllApiCallsSucceed(r)
             /\ r.broker_up
             /\ r.out.cmd # <<>>
             /\ Acceptable(r.out.cmd[1])) =>
                /\ \A k \in KnownCommands :
                      SameIgnoringCase(r.out.cmd[1], k) =>
                          /\ Len(r.out.submitted) = 1
                          /\ r.out.submitted[1].name = dispatch_map_get(k)[1]
                /\ (\A k \in KnownCommands : ~SameIgnoringCase(r.out.cmd[1], k)) =>
                      /\ r.out.submitted = <<>>
                      /\ r.out.result = Return(FALSE)

C17_Witness ==
    /\ dispatch # <<>>
    /\ chat.room.type = "group"
    /\ dispatch[1].out.cmd = <<<<"s", "H", "o", "W", " ", "s", "T", "a", "T", "u", "S">>>>
    /\ AllApiCallsSucceed(dispatch[1])
    /\ dispatch[1].out.result = Return(TRUE)
    /\ Len(queue) = 1
    /\ queue[1].name = "task_report_zabbix_server_status"

PublicAttrs(obj) == [a \in DOMAIN obj \ {"_json"} |-> obj[a]]

ExpectedHandler(cmd) ==
    CASE cmd = <<"h", "e", "l", "l", "o">> -> "task_say_hello"
      [] cmd = <<"s", "h", "o", "w", " ", "i", "s", "s", "u", "e", "s">> ->
            "task_report_zabbix_active_issues"
      [] cmd = <<"s", "h", "o", "w", " ", "s", "t", "a", "t", "u", "s">> ->
            "task_report_zabbix_server_status"

\* C18: the commands "hello", "show issues" and "show status" submit
\* task_say_hello, task_report_zabbix_active_issues and
\* task_report_zabbix_server_status respectively: exactly one handler, with
\* the arguments (room, caller) made from the room and the person fetched
\* for the webhook, and the task returns True.
C18_DispatchTableIsFixed ==
    \A i \in 1..Len(dispatch) :
        LET r == dispatch[i]
        IN  (/\ HasDispatchKeys(r.task.args[1])
             /\ AllApiCallsSucceed(r)
             /\ r.broker_up
             /\ r.out.cmd # <<>>
             /\ r.out.cmd[1] \in KnownCommands) =>
                /\ r.out.result = Return(TRUE)
                /\ Len(r.out.submitted) = 1
                /\ r.out.submitted[1].name = ExpectedHandler(r.out.cmd[1])
                /\ r.out.submitted[1].args =
                      <<PublicAttrs(chat.room), PublicAttrs(chat.person)>>
                /\ queue = r.out.submitted

C18_Witness ==
    /\ dispatch # <<>>
    /\ chat.room.type = "group"
    /\ chat.msg.text = <<"Z", "p", "a", "r", "k", " ", "h", "e", "l", "l", "o">>
    /\ dispatch[1].out.cmd = <<Hello>>
    /\ dispatch[1].out.result = Return(TRUE)
    /\ Len(queue) = 1
    /\ queue[1].name = "task_say_hello"
    /\ queue[1].args[1]["type"] = "group"
    /\ queue[1].args[2]["displayName"] = "Charlie Root"

(***************************************************************************)
(* Claims about notify_of_failed_command and the command handlers.         *)
(***************************************************************************)

\* C19: notify_of_failed_command asks for one message to be sent to the
\* room (one task_send_spark_message.apply, to the room's id) exactly when
\* it is called with retries = 0, and that message is created once when
\* the Spark API accepts it; called with retries > 0, below, at or above
\* max_retries, it sends nothing and returns normally.
C19_NotifiesOnlyOnFirstTry ==
    \A i \in 1..Len(notify) :
        LET r == notify[i]
        IN  /\ r.out.applies = (IF r.retries = 0 THEN 1 ELSE 0)
            /\ Len(r.out.created) <= 1
            /\ Len(sent) = r.before + Len(r.out.created)
            /\ (r.retries = 0 /\ r.fails = 0) =>
                  /\ r.out.result = Return(None)
                  /\ Len(r.out.created) = 1
                  /\ "roomId" \in DOMAIN r.out.created[1]
                  /\ r.out.created[1].roomId = r.room["id"]
            /\ r.retries > 0 =>
                  /\ r.out.result = Return(None)
                  /\ r.out.creates = 0
                  /\ r.out.created = <<>>

C19_Witness ==
    /\ notify # <<>>
    /\ notify[1].retries = 0
    /\ notify[1].fails = 0
    /\ notify[1].room["type"] = "group"
    /\ notify[1].out.result = Return(None)
    /\ Len(sent) = 1
    /\ sent[1].text = "zpark_command_error.txt"

ErrorNotifications == {i \in 1..Len(sent) : sent[i].text = "zpark_command_error.txt"}

\* C20: over all attempts of one dispatched command, at most one failure
\* notification is created in the room, and an attempt in which one is
\* created is the attempt with zero prior retries.
C20_AtMostOneNotification ==
    /\ Cardinality(ErrorNotifications) <= 1
    /\ \A i \in 1..Len(handler) :
          (\E k \in 1..Len(handler[i].out.created) :
              handler[i].out.created[k].text = "zpark_command_error.txt") =>
                /\ handler[i].task.retries = 0
                /\ i = 1

C20_Witness ==
    /\ Len(handler) = 4
    /\ \A i \in 1..4 : ~handler[i].zabbix_ok /\ handler[i].task.retries = i - 1
    /\ handler[4].state = "FAILURE"
    /\ queue = <<>>
    /\ Len(sent) = 1
    /\ sent[1].text = "zpark_command_error.txt"

\* The run of one command has ended by exhausting its retries: every
\* attempt asked for a retry and the last one was refused.
GaveUp ==
    /\ handler # <<>>
    /\ queue = <<>>
    /\ running = <<>>
    /\ \A i \in 1..Len(handler) : handler[i].out.result.kind = "retry"

FailedInZabbix(i) == handler[i].out.queried /\ ~handler[i].zabbix_ok

FailedInSpark(i) ==
    handler[i].out.result.kind = "retry" /\ handler[i].out.result.exc = "SparkApiError"

\* C21 as claimed: a handler that fails transiently on every attempt until
\* its retries are exhausted has sent exactly one failure notification.
C21_Claimed ==
    GaveUp => Cardinality(ErrorNotifications) = 1

\* C21: a handler that fails transiently on every attempt until its retries
\* are exhausted has sent exactly one failure notification when its first
\* attempt failed in the monitoring backend, and none when its first
\* attempt failed in the chat backend.
C21_OneNotificationAfterZabbixFailure ==
    GaveUp =>
        Cardinality(ErrorNotifications) = (IF FailedInZabbix(1) THEN 1 ELSE 0)

C21_Witness ==
    /\ GaveUp
    /\ Len(handler) = MAX_RETRIES + 1
    /\ handler[1].task.name = "task_report_zabbix_active_issues"
    /\ \A i \in 1..Len(handler) : FailedInZabbix(i)
    /\ handler[1].fails = 0
    /\ handler[2].fails = 2
    /\ Cardinality(ErrorNotifications) = 1

\* The reply of the handler of attempt i: the message its templates render,
\* addressed to the room of the command.
ReplyOfTask(task) ==
    LET template == SubSeq(task.name, 6, Len(task.name))
    IN  SparkMessage(task.args[1], template \o ".txt", <<template \o ".md">>)

ReplyOf(i) == ReplyOfTask(handler[i].task)

NotifiedIn(i) ==
    \E k \in 1..Len(handler[i].out.created) :
        handler[i].out.created[k].text = "zpark_command_error.txt"

FailsThenSucceeds ==
    /\ Len(handler) >= 2
    /\ handler[1].out.result.kind = "retry"
    /\ handler[2].out.result.kind = "return"

EndsInSuccessAfterTwo ==
    /\ Len(handler) = 2
    /\ queue = <<>>
    /\ handler[1].task.retries = 0 /\ handler[1].state = "RETRY"
    /\ handler[2].task.retries = 1 /\ handler[2].state = "SUCCESS"
    /\ sent # <<>> /\ sent[Len(sent)] = ReplyOf(2)

\* C22 as claimed: whatever transient failure attempt 0 had, exactly one
\* failure notification is sent, in attempt 0, and the command succeeds in
\* its second attempt.
C22_Claimed ==
    FailsThenSucceeds =>
        /\ EndsInSuccessAfterTwo
        /\ Cardinality(ErrorNotifications) = 1
        /\ NotifiedIn(1)

\* C22: a handler that fails transiently on attempt 0 and succeeds on
\* attempt 1 is executed exactly twice and ends in success with its reply
\* delivered; exactly one failure notification is sent, in attempt 0, when
\* attempt 0 failed in the monitoring backend, and none when it failed in
\* the chat backend.
C22_FailThenSucceed ==
    FailsThenSucceeds =>
        /\ EndsInSuccessAfterTwo
        /\ IF FailedInZabbix(1)
           THEN Cardinality(ErrorNotifications) = 1 /\ NotifiedIn(1)
           ELSE ErrorNotifications = {}

C22_Witness ==
    /\ FailsThenSucceeds
    /\ handler[1].task.name = "task_report_zabbix_server_status"
    /\ FailedInZabbix(1)
    /\ handler[2].zabbix_ok
    /\ Len(sent) = 2
    /\ sent[1].text = "zpark_command_error.txt"
    /\ sent[2] = ReplyOf(2)

\* The notifier call of attempt i carries the room and the caller of the
\* command, the retries made so far, the handler's max_retries and the error.
NotifierInvoked(i) ==
    /\ Len(handler[i].out.notify) = 1
    /\ LET call == handler[i].out.notify[1]
       IN  /\ call.room = handler[i].task.args[1]
           /\ call.caller = handler[i].task.args[2]
           /\ call.retries = handler[i].task.retries
           /\ call.max_retries = MAX_RETRIES
           /\ call.exc \in {"ZabbixAPIException", "SparkApiError"}

\* C23 as claimed: every attempt that ends in a retry, whichever backend
\* failed, has invoked the notifier.
C23_Claimed ==
    \A i \in 1..Len(handler) :
        handler[i].out.result.kind = "retry" => NotifierInvoked(i)

\* C23: an attempt that fails in the monitoring backend invokes the notifier
\* with (room, caller, retries so far, max retries, error) and asks for a
\* retry only once that call has returned; an attempt that fails in the
\* chat backend asks for a retry without invoking the notifier.
C23_NotifierBeforeRetryOnZabbixFailure ==
    \A i \in 1..Len(handler) :
        /\ FailedInZabbix(i) =>
              /\ NotifierInvoked(i)
              /\ handler[i].out.notify[1].exc = "ZabbixAPIException"
              /\ handler[i].out.result.kind = "retry"
                    <=> handler[i].out.notify[1].out.result.kind = "return"
        /\ FailedInSpark(i) => handler[i].out.notify = <<>>

C23_Witness ==
    /\ Len(handler) = 3
    /\ FailedInSpark(1) /\ handler[1].out.queried
    /\ FailedInZabbix(2) /\ NotifierInvoked(2)
    /\ handler[2].out.notify[1].retries = 1
    /\ handler[2].out.result.kind = "retry"
    /\ FailedInZabbix(3) /\ handler[3].out.notify[1].retries = 2

(***************************************************************************)
(* Claims about retrying.                                                  *)
(***************************************************************************)
\* The answers by which the chat platform limits the rate of requests or
\* reports that it is unavailable for the moment.
TransientCodes == {429, 503}

\* A chat API call made by the execution r of the dispatch task failed.
ApiCallFailed(r) ==
    \E k \in 1..Len(r.out.calls) :
        \/ r.out.calls[k] = "messages.get" /\ ~r.api.msg
        \/ r.out.calls[k] = "rooms.get" /\ ~r.api.room
        \/ r.out.calls[k] = "people.get" /\ ~r.api.person

DispatchTaskQueued ==
    \E k \in 1..Len(queue) : queue[k].name = "task_dispatch_spark_command"

\* A message of the command of attempt i of the handler is queued or taken.
HandlerLeftToRun(i) ==
    \/ \E q \in 1..Len(queue) : queue[q].id = handler[i].task.id
    \/ \E k \in 1..Len(running) : running[k].task.id = handler[i].task.id

\* C24 as claimed: an attempt asks for a retry only when the failure is the
\* platform's rate-limiting or unavailability answer (stated on the
\* dispatch task, whose failed API call carries the status of the error).
C24_Claimed ==
    \A k \in 1..Len(dispatch) :
        dispatch[k].out.result.kind = "retry" =>
            dispatch[k].api.code \in TransientCodes

\* C24: an attempt asks for a retry only when a call of a backend's API
\* has failed in it, with SparkApiError (whatever the status of the error)
\* or, in a report handler, with ZabbixAPIException; the dispatch task
\* asks for it whenever a call of the chat API has failed.  An attempt
\* that ends with an exception raised, be it another exception or the one
\* that came out of a failed failure notification, is not retried: it is
\* the last attempt and nothing of the command is left to run (the worker
\* records FAILURE for it, or RETRY when the exception is the Retry of the
\* notification's own task).
C24_OnlyApiErrorsRetried ==
    /\ \A k \in 1..Len(dispatch) :
          LET r == dispatch[k]
          IN  /\ r.out.result.kind = "retry" <=> ApiCallFailed(r)
              /\ r.out.result.kind = "retry" => r.out.result.exc = "SparkApiError"
              /\ r.out.result.kind = "raise" =>
                    /\ r.out.result.exc # "SparkApiError"
                    /\ r.state = "FAILURE"
                    /\ ~DispatchTaskQueued
                    /\ queue = <<>> /\ handler = <<>>
    /\ \A i \in 1..Len(handler) :
          LET h == handler[i]
          IN  /\ h.out.result.kind = "retry" =>
                    \/ /\ h.out.result.exc = "ZabbixAPIException"
                       /\ h.task.name # "task_say_hello"
                       /\ h.out.queried /\ ~h.zabbix_ok
                    \/ /\ h.out.result.exc = "SparkApiError"
                       /\ h.fails > 0
              /\ (h.out.result.kind = "retry" /\ h.task.retries < MAX_RETRIES) =>
                    /\ h.state = "RETRY"
                    /\ i < Len(handler) \/ HandlerLeftToRun(i)
              /\ h.out.result.kind = "raise" =>
                    /\ i = Len(handler)
                    /\ h.state = (IF h.out.result.exc = "Retry" THEN "RETRY" ELSE "FAILURE")
                    /\ h.countdown = <<>>
                    /\ ~HandlerLeftToRun(i)

\* The dispatch task was retried after a 404 of messages.get and then
\* published the report, whose first attempt was retried after Zabbix
\* failed and whose second attempt is on the queue.
C24_Witness ==
    /\ Len(dispatch) = 1
    /\ dispatch[1].task.retries = 1
    /\ dispatch[1].out.result = Return(TRUE)
    /\ Len(handler) = 1
    /\ handler[1].task.name = "task_report_zabbix_active_issues"
    /\ handler[1].out.result = Retry("ZabbixAPIException")
    /\ handler[1].state = "RETRY"
    /\ HandlerLeftToRun(1)

\* C25: the attempts of one command are numbered 0, 1, 2, ... by their
\* retries, none has more than max_retries (3) retries behind it, and when
\* the attempt with 3 retries behind it fails transiently the command is
\* given up: it has failed and no attempt is left on the queue.
C25_RetriesAreBounded ==
    /\ Len(handler) <= MAX_RETRIES + 1
    /\ Len(queue) <= 1
    /\ \A i \in 1..Len(handler) :
          /\ handler[i].task.retries = i - 1
          /\ (handler[i].out.result.kind = "retry" /\ i = MAX_RETRIES + 1) =>
                handler[i].state = "FAILURE" /\ queue = <<>>
          /\ (handler[i].out.result.kind = "retry" /\ i <= MAX_RETRIES) =>
                handler[i].state = "RETRY"

C25_Witness ==
    /\ GaveUp
    /\ Len(handler) = MAX_RETRIES + 1
    /\ handler[1].task.name = "task_say_hello"
    /\ \A i \in 1..Len(handler) : FailedInSpark(i)
    /\ handler[MAX_RETRIES + 1].task.retries = MAX_RETRIES
    /\ handler[MAX_RETRIES + 1].state = "FAILURE"
    /\ sent = <<>>

\* C26 as claimed: when a command is given up after a failure of the
\* monitoring backend, the notifier call of the last attempt carries
\* retries > max_retries (retries = max_retries + 1) and sends nothing.
C26_Claimed ==
    (GaveUp /\ FailedInZabbix(Len(handler))) =>
        LET call == handler[Len(handler)].out.notify[1]
        IN  /\ NotifierInvoked(Len(handler))
            /\ call.retries > call.max_retries
            /\ call.retries = call.max_retries + 1
            /\ call.out.created = <<>>

LastAttempt == handler[Len(handler)]

\* No attempt of the command is queued or running.
AtRest == queue = <<>> /\ running = <<>>

Success ==
    handler # <<>> /\ AtRest /\ LastAttempt.out.result.kind = "return"
        /\ LastAttempt.state = "SUCCESS"

\* An exception left the last attempt and no retry was scheduled: the chat
\* API's error of a notification, or the Retry of the notification's own
\* task, which the worker records as RETRY although nothing is queued.
PermanentFailure ==
    handler # <<>> /\ AtRest /\ LastAttempt.out.result.kind = "raise"
        /\ LastAttempt.state \in {"FAILURE", "RETRY"}
        /\ LastAttempt.countdown = <<>>

GiveUp ==
    handler # <<>> /\ AtRest /\ LastAttempt.out.result.kind = "retry"
        /\ LastAttempt.state = "FAILURE"

Terminal == Success \/ PermanentFailure \/ GiveUp

\* C27: with workers running, a dispatched command eventually is in one of
\* the states Success, PermanentFailure and GiveUp and stays in it; a
\* command that is neither queued nor running is in one of these states,
\* so nothing takes it away before, and no step leads out of such a state.
C27_EveryCommandEnds ==
    /\ <>[]Terminal
    /\ [](AtRest => Terminal)
    /\ [][Terminal => UNCHANGED <<queue, running, handler, sent>>]_vars

C27_Witness ==
    /\ PermanentFailure
    /\ Len(handler) = 1
    /\ FailedInZabbix(1)
    /\ LastAttempt.out.result.exc = "SparkApiError"
    /\ sent = <<>>

(***************************************************************************)
(* Claims about workers running in parallel.                               *)
(***************************************************************************)
SameCommand(i, j) == handler[i].task.id = handler[j].task.id

\* The attempts of command c that workers are running.
RunningOf(c) == {k \in 1..Len(running) : running[k].task.id = c}

\* C28: at most one attempt of a command is running at any moment; of two
\* attempts of one command the earlier one has ended, by asking for a
\* retry, before the later one starts, and the later one is its retry.  The
\* retry is published while the attempt that asks for it is still running:
\* a message of a command that waits on the queue while an attempt of the
\* command runs is the retry that attempt has asked for, and its countdown
\* has not elapsed.
C28_AttemptsNeverOverlap ==
    /\ \A k \in 1..Len(running) : Cardinality(RunningOf(running[k].task.id)) = 1
    /\ \A k \in 1..Len(running), q \in 1..Len(queue) :
          queue[q].id = running[k].task.id =>
              /\ running[k].phase = "called"
              /\ running[k].out.result.kind = "retry"
              /\ queue[q].retries = running[k].task.retries + 1
              /\ queue[q].countdown > 0
    /\ \A i, j \in 1..Len(handler) :
          (i < j /\ SameCommand(i, j)) =>
              /\ handler[i].out.result.kind = "retry"
              /\ handler[j].task.retries > handler[i].task.retries
    /\ \A k \in 1..Len(running), i \in 1..Len(handler) :
          handler[i].task.id = running[k].task.id =>
              /\ handler[i].out.result.kind = "retry"
              /\ running[k].task.retries > handler[i].task.retries

\* The first attempt of one command has ended in a retry; that retry runs
\* on one worker and has asked for a further retry, whose message waits on
\* the queue for its countdown while the attempt has not ended; the other
\* command runs on the other worker.
C28_Witness ==
    /\ Len(handler) = 1
    /\ handler[1].out.result.kind = "retry"
    /\ Len(running) = 2
    /\ running[1].worker # running[2].worker
    /\ \E k \in 1..2 :
          /\ running[k].task.id = handler[1].task.id
          /\ running[k].task.retries = 1
          /\ running[k].phase = "called"
          /\ running[3 - k].task.id # handler[1].task.id
          /\ \E q \in 1..Len(queue) :
                /\ queue[q].id = running[k].task.id
                /\ queue[q].retries = 2
                /\ queue[q].countdown = 15

(***************************************************************************)
(* Claims about failures of the chat API.                                  *)
(***************************************************************************)
\* The notifier was called for a first try and messages.create failed.
NotificationFails == notify # <<>> /\ notify[1].retries = 0 /\ notify[1].fails > 0

\* C29 as claimed: when the delivery of the notification fails, the error
\* is raised to the caller and messages.create has been called once.
C29_Claimed ==
    NotificationFails =>
        /\ notify[1].out.result = Raise("SparkApiError")
        /\ notify[1].out.creates = 1

\* The calls made by the execution r end with the one that failed.
StoppedAtFailedCall(r) ==
    LET last == r.out.calls[Len(r.out.calls)]
    IN  \/ last = "messages.get" /\ ~r.api.msg
        \/ last = "rooms.get" /\ ~r.api.room
        \/ last = "people.get" /\ ~r.api.person

\* C30: when messages.get, rooms.get or people.get fails in an execution of
\* the dispatch task, the execution stops at that call and submits no
\* handler; run by a worker it asks for a retry carrying the SparkApiError,
\* called as a function it raises the SparkApiError.
C30_ApiFailureIsRetriedOrRaised ==
    \A k \in 1..Len(dispatch) :
        LET r == dispatch[k]
        IN  ApiCallFailed(r) =>
              /\ StoppedAtFailedCall(r)
              /\ r.out.submitted = <<>>
              /\ r.out.result = (IF r.called_directly
                                 THEN Raise("SparkApiError")
                                 ELSE Retry("SparkApiError"))
              /\ r.called_directly =>
                    /\ Len(queue) + Len(running) = 1
                    /\ \A q \in 1..Len(queue) : queue[q].retries = 0
                    /\ \A q \in 1..Len(running) : running[q].task.retries = 0

C30_Witness ==
    /\ Len(dispatch) = 1
    /\ dispatch[1].called_directly
    /\ dispatch[1].api.msg /\ dispatch[1].api.room /\ ~dispatch[1].api.person
    /\ dispatch[1].out.cmd = <<ShowIssues>>
    /\ dispatch[1].out.result = Raise("SparkApiError")
    /\ Len(queue) = 1

(***************************************************************************)
(* Claims about the HTTP endpoints.                                        *)
(***************************************************************************)
IsNumeric(cl) == cl # None /\ cl # <<>> /\ \A i \in 1..Len(cl) : cl[i] \in Digits

ExceedsMaxContentLength(request, cfg) ==
    /\ IsNumeric(request.content_length)
    /\ cfg["MAX_CONTENT_LENGTH"] # None
    /\ DecimalValue(request.content_length) > cfg["MAX_CONTENT_LENGTH"][2]

\* C31 as claimed: a POST whose Content-Length is missing, empty or not a
\* number is answered with 400, one whose Content-Length exceeds
\* MAX_CONTENT_LENGTH with 413, and handle_spark_webhook is not called.
C31_Claimed ==
    \A k \in 1..Len(post) :
        LET r == post[k]
        IN  /\ ~IsNumeric(r.request.content_length) =>
                  /\ ReturnedError(r.out, 400)
                  /\ r.out.handle = <<>>
            /\ ExceedsMaxContentLength(r.request, config) =>
                  /\ ReturnedError(r.out, 413)
                  /\ r.out.handle = <<>>

\* C32: the guarded handler runs exactly when ZPARK_API_TOKEN is set and
\* the Token header equals it; with no token set every request is aborted
\* with 500, with a token set a missing or different header with 401.
C32_TokenGuardsHandler ==
    \A k \in 1..Len(post) :
        LET r == post[k]
            our == config["ZPARK_API_TOKEN"]
        IN  /\ r.out.ran <=> (our # None /\ r.token = our)
            /\ r.out.ran => r.out.result = ping_get
            /\ our = None => r.out.result = Abort(500)
            /\ (our # None /\ r.token # our) => r.out.result = Abort(401)

C32_Witness ==
    /\ post # <<>>
    /\ config["ZPARK_API_TOKEN"] = None
    /\ post[1].token = <<"a", "b">>
    /\ post[1].out.result = Abort(500)
    /\ ~post[1].out.ran

(***************************************************************************)
(* Further claims about the extraction of the command.                     *)
(***************************************************************************)
\* The execution r stripped the mention of a group-room message.
StrippedMention(r) ==
    /\ chat.room.type = "group"
    /\ mention_match(chat.msg.html) # <<>>
    /\ StartsWith(chat.msg.text, mention_match(chat.msg.html)[1])
    /\ r.out.cmd # <<>>

\* The index in the text that follows the bot name and the run of ',',
\* ':' and ';' after it.
AfterPunctuation ==
    SkipWhile(chat.msg.text, Len(mention_match(chat.msg.html)[1]) + 1, Delimiters)

\* C33 as claimed: the command extracted from a group-room message never
\* begins with ',', ';', ':' or white space.
C33_Claimed ==
    \A k \in 1..Len(dispatch) :
        LET r == dispatch[k]
        IN  (StrippedMention(r) /\ r.out.cmd[1] # <<>>) =>
                r.out.cmd[1][1] \notin Delimiters \cup Whitespace

\* C33: after the mention the run of ',', ':' and ';' and then the run of
\* white space are removed, in that order: the command never begins with
\* white space, and it begins with ',', ':' or ';' only when white space
\* stood between the mention (and its punctuation) and that character.
C33_PunctuationThenWhitespace ==
    \A k \in 1..Len(dispatch) :
        LET r == dispatch[k]
        IN  (StrippedMention(r) /\ r.out.cmd[1] # <<>>) =>
              /\ r.out.cmd[1][1] \notin Whitespace
              /\ r.out.cmd[1][1] \in Delimiters =>
                    chat.msg.text[AfterPunctuation] \in Whitespace

C33_Witness ==
    /\ Len(dispatch) = 1
    /\ StrippedMention(dispatch[1])
    /\ chat.msg.text = Zpark \o <<" ", ",", " ">> \o ShowIssues
    /\ dispatch[1].out.cmd = <<<<",", " ">> \o ShowIssues>>
    /\ dispatch[1].out.result = Return(FALSE)

(***************************************************************************)
(* Further claims about the retries of a handler.                          *)
(***************************************************************************)
Scheduled(i) == handler[i].countdown # <<>>

\* C34 as claimed: the first retry is scheduled after the handler's base
\* delay and every later retry after a longer delay than the one before.
C34_Claimed ==
    \A i \in 1..Len(handler) :
        Scheduled(i) =>
            /\ i = 1 => handler[i].countdown[1] = default_retry_delay(handler[i].task.name)
            /\ i > 1 => handler[i].countdown[1] > handler[i - 1].countdown[1]

\* C34: every retry of a handler is scheduled after the same delay, the
\* default_retry_delay of its task: 15 seconds for the two reports, 20 for
\* task_say_hello, whatever the number of retries made so far.
C34_RetryDelayIsConstant ==
    \A i \in 1..Len(handler) :
        Scheduled(i) =>
            /\ handler[i].countdown[1] =
                  (IF handler[i].task.name = "task_say_hello" THEN 20 ELSE 15)
            /\ i > 1 => handler[i].countdown[1] = handler[i - 1].countdown[1]

C34_Witness ==
    /\ Len(handler) = 3
    /\ handler[1].task.name = "task_report_zabbix_server_status"
    /\ \A i \in 1..3 : Scheduled(i) /\ handler[i].countdown[1] = 15
    /\ handler[3].task.retries = 2

(***************************************************************************)
(* Two commands side by side.                                              *)
(***************************************************************************)
\* The command run alone: the attempts a worker makes of the task when the
\* backends answer its attempts as the schedule says, the first attempt
\* first, each with the message taken, what the task function did and what
\* the worker recorded.
RECURSIVE SoloRun(_, _)
SoloRun(task, schedule) ==
    LET in == schedule[task.retries + 1]
        out == run_handler(task, in[1], in[2], celery.eager_rerun)
        retry == IF out.result.kind = "retry" THEN retry_requeue(task) ELSE <<>>
    IN  <<[task |-> task, out |-> out, state |-> worker_state(task, out.result)]>>
            \o (IF retry = <<>> THEN <<>>
                ELSE SoloRun([retry[1] EXCEPT !.countdown = 0], schedule))

\* The messages the first n attempts of a run created in Spark.
RECURSIVE CreatedBy(_, _)
CreatedBy(run, n) ==
    IF n = 0 THEN <<>> ELSE CreatedBy(run, n - 1) \o run[n].out.created

\* Command c in the run of the two workers: its attempts that have ended,
\* its attempts whose task function has run, the messages it has in Spark
\* (the two commands come from different rooms) and its messages that wait
\* for a worker or for the task function to start.
EndedOf(c) == SelectSeq(handler, LAMBDA h : h.task.id = c)
CalledOf(c) == {k \in RunningOf(c) : running[k].phase = "called"}
PublishingOf(c) == {k \in RunningOf(c) : RetryToPublish(k)}
SentOf(c, room) == SelectSeq(sent, LAMBDA m : m.roomId = room["id"])
WaitingOf(c) ==
    {[queue[q] EXCEPT !.countdown = 0] : q \in {k \in 1..Len(queue) : queue[k].id = c}}
    \cup {running[k].task : k \in RunningOf(c) \ CalledOf(c)}

\* Where command c is: its messages on the queue, its running attempts and
\* its attempts that ended without a retry to come.
OnQueue(c) == {k \in 1..Len(queue) : queue[k].id = c}
Finished(c) ==
    {i \in 1..Len(handler) :
        /\ handler[i].task.id = c
        /\ \/ handler[i].out.result.kind \in {"return", "raise"}
           \/ handler[i].state = "FAILURE"}

\* C35: whatever the interleaving of the steps of the two commands, each
\* command does what it does when it runs alone against the same backend
\* responses.  Its attempts so far are the first attempts of the run alone,
\* with the same message, the same result and the same record of the worker,
\* the messages it has in Spark (notifications and replies) are those the
\* run alone has created by then, and what is left of it to run is the next
\* attempt of the run alone (once the attempt that asks for it has published
\* it), or nothing when the run alone is over: so at
\* the end the terminal outcome, the number of attempts and the
\* notifications and replies are those of the run alone.
C35_CommandsAreIndependent ==
    \E p \in CommandPairs :
        \A c \in {1, 2} :
            LET alone == SoloRun(DispatchedCommands(p)[c], backend[c])
                ended == EndedOf(c)
                called == Len(ended) + Cardinality(CalledOf(c))
            IN  /\ called <= Len(alone)
                /\ \A k \in 1..Len(ended) :
                      /\ ended[k].task = alone[k].task
                      /\ ended[k].out = alone[k].out
                      /\ ended[k].state = alone[k].state
                /\ SentOf(c, DispatchedCommands(p)[c].args[1])
                      = CreatedBy(alone, called)
                /\ WaitingOf(c) = (IF called < Len(alone) /\ PublishingOf(c) = {}
                                   THEN {alone[called + 1].task} ELSE {})
                /\ Cardinality(OnQueue(c)) + Cardinality(RunningOf(c) \ CalledOf(c))
                      = (IF called < Len(alone) /\ PublishingOf(c) = {} THEN 1 ELSE 0)
                /\ PublishingOf(c) # {} => called < Len(alone)
                /\ Cardinality(CalledOf(c)) <= 1

\* Both commands have finished, the second one first, after the first one
\* was retried while the second one ran.
C35_Witness ==
    /\ Finished(1) # {}
    /\ Finished(2) # {}
    /\ \A i \in Finished(1), j \in Finished(2) : j < i
    /\ \E i \in 1..Len(handler) :
          /\ handler[i].task.id = 1
          /\ handler[i].state = "RETRY"
          /\ \E j \in Finished(2) : i < j
    /\ Cardinality({i \in 1..Len(handler) : handler[i].task.id = 1}) = 3
    /\ Len(sent) >= 2

(***************************************************************************)
(* The handler of one webhook.                                             *)
(***************************************************************************)
QueuedHandlers == {k \in 1..Len(queue) : queue[k].name \in HandlerNames}
QueuedDispatches == {k \in 1..Len(queue) : queue[k].name = "task_dispatch_spark_command"}

\* C36: for one accepted webhook at most one handler task is submitted,
\* however often the dispatch task is retried: a run that asks for a retry
\* has stopped at a failed API call and submitted nothing, and a run that
\* submits a handler returns True and leaves no dispatch task to run again.
C36_AtMostOneHandlerPerWebhook ==
    /\ Cardinality(QueuedHandlers) <= 1
    /\ QueuedHandlers # {} => QueuedDispatches = {} /\ running = <<>>
    /\ dispatch # <<>> =>
          LET r == dispatch[1]
          IN  /\ r.out.result.kind = "retry" =>
                    /\ r.out.submitted = <<>>
                    /\ QueuedHandlers = {}
                    /\ ~r.api.msg \/ ~r.api.room \/ ~r.api.person
              /\ r.out.submitted # <<>> =>
                    /\ r.out.result = Return(TRUE)
                    /\ r.state = "SUCCESS"
                    /\ Len(r.out.submitted) = 1
                    /\ QueuedHandlers # {}

\* The dispatch task was retried three times and then submitted a handler.
C36_Witness ==
    /\ dispatch # <<>>
    /\ dispatch[1].task.retries = MAX_RETRIES
    /\ dispatch[1].out.submitted # <<>>
    /\ Cardinality(QueuedHandlers) = 1
    /\ QueuedDispatches = {}

(***************************************************************************)
(* The reply of a report.                                                  *)
(***************************************************************************)
ReportNames == {"task_report_zabbix_active_issues", "task_report_zabbix_server_status"}

RepliedIn(i) ==
    \E k \in 1..Len(handler[i].out.created) : handler[i].out.created[k] = ReplyOf(i)

RepliesDelivered == {k \in 1..Len(sent) : sent[k].text # "zpark_command_error.txt"}

\* The task function of the running attempt k has delivered its reply.
DeliversReply(k) ==
    /\ running[k].phase = "called"
    /\ \E m \in 1..Len(running[k].out.created) :
          running[k].out.created[m] = ReplyOfTask(running[k].task)

\* The command in hand is a report.
ReportCommand ==
    \/ \E i \in 1..Len(handler) : handler[i].task.name \in ReportNames
    \/ \E k \in 1..Len(running) : running[k].task.name \in ReportNames
    \/ \E q \in 1..Len(queue) : queue[q].name \in ReportNames

\* C37: an attempt of a report handler delivers its reply only when its own
\* query of the monitoring backend succeeded, and then it ends in success;
\* an attempt that ends in a retry or in an error delivers no reply, and
\* over all attempts of the command at most one reply reaches the room: one
\* when the command has ended in success, none otherwise.
C37_ReplyOnlyInSuccessfulAttempt ==
    /\ \A i \in 1..Len(handler) :
          handler[i].task.name \in ReportNames =>
              /\ RepliedIn(i) =>
                    /\ handler[i].out.queried
                    /\ handler[i].zabbix_ok
                    /\ handler[i].out.result.kind = "return"
                    /\ handler[i].state = "SUCCESS"
              /\ handler[i].state = "SUCCESS" => RepliedIn(i)
              /\ handler[i].out.result.kind \in {"retry", "raise"} =>
                    ~RepliedIn(i)
    /\ \A k \in 1..Len(running) :
          (running[k].task.name \in ReportNames /\ running[k].phase = "called") =>
              /\ DeliversReply(k) <=> running[k].out.result.kind = "return"
              /\ DeliversReply(k) => running[k].out.queried /\ running[k].zabbix_ok
    /\ ReportCommand =>
          /\ Cardinality(RepliesDelivered)
                = (IF Success \/ (\E k \in 1..Len(running) : DeliversReply(k))
                   THEN 1 ELSE 0)
          /\ \A k \in RepliesDelivered : k = Len(sent)
          /\ (Success /\ sent # <<>>) => sent[Len(sent)] = ReplyOf(Len(handler))

\* A report that failed in the monitoring backend, then in the chat
\* backend, and delivered its reply in its third attempt.
C37_Witness ==
    /\ Len(handler) = 3
    /\ handler[1].task.name = "task_report_zabbix_active_issues"
    /\ FailedInZabbix(1) /\ NotifiedIn(1)
    /\ handler[2].zabbix_ok /\ FailedInSpark(2)
    /\ RepliedIn(3) /\ Success
    /\ Len(sent) = 2
    /\ Cardinality(RepliesDelivered) = 1

(***************************************************************************)
(* Errors of the command extraction.                                       *)
(***************************************************************************)
\* The run read a message of a group room whose markup starts with a mention.
ExtractedFromMention(r) ==
    /\ HasDispatchKeys(r.task.args[1])
    /\ r.api.msg /\ r.api.room
    /\ chat.room["type"] = "group"
    /\ mention_match(chat.msg["html"]) # <<>>

\* C38 as claimed: for a group-room message whose markup starts with a
\* mention span, whether or not its plain text begins with the mentioned
\* name, the task obtains a command text or returns False; the extraction
\* raises nothing.
C38_Claimed ==
    \A k \in 1..Len(dispatch) :
        ExtractedFromMention(dispatch[k]) =>
            \/ dispatch[k].out.cmd # <<>>
            \/ dispatch[k].out.result = Return(FALSE)

(***************************************************************************)
(* The results of handle_spark_webhook.                                    *)
(***************************************************************************)
\* C39 as claimed: for every envelope, whichever fields it has and whatever
\* its personEmail is, handle_spark_webhook raises nothing and returns a
\* body and a status of 200, 400 or 500; the body is {taskid} exactly when a
\* dispatch task was submitted and {error} otherwise.
C39_Claimed ==
    hook # <<>> =>
        LET out == hook[1].out
        IN  /\ out.result.kind = "return"
            /\ Len(out.result.value) = 2
            /\ out.result.value[2] \in {200, 400, 500}
            /\ DOMAIN out.result.value[1] =
                  (IF out.submitted # <<>> THEN {"taskid"} ELSE {"error"})

(***************************************************************************)
(* A failure notification that cannot be delivered.                        *)
(***************************************************************************)
\* Attempt i is the first attempt of a report, its query of the monitoring
\* backend failed and so did the messages.create of its notification.
NotificationUndelivered(i) ==
    /\ handler[i].task.name \in ReportNames
    /\ handler[i].task.retries = 0
    /\ ~handler[i].zabbix_ok
    /\ handler[i].fails > 0

\* C40 as claimed: when the monitoring backend fails on attempt 0 of a
\* report handler and the delivery of the failure notification fails too,
\* the handler ends with the chat API's error and no retry is scheduled:
\* the command is over after this one attempt, and neither a notification
\* nor a reply has reached the room.
C40_Claimed ==
    \A i \in 1..Len(handler) :
        NotificationUndelivered(i) =>
            /\ handler[i].out.result = Raise("SparkApiError")
            /\ handler[i].state = "FAILURE"
            /\ handler[i].countdown = <<>>
            /\ handler[i].out.created = <<>>
            /\ Len(handler[i].out.notify) = 1
            /\ handler[i].out.notify[1].out.result = Raise("SparkApiError")
            /\ Len(handler) = 1
            /\ AtRest
            /\ sent = <<>>

====
